---- MODULE Spec2Model ----
(***************************************************************************)
(* Model of the MCP vector proxy (src/src/tray.ts, proxy part, lines       *)
(* 296-851): the upstream connection supervisor, the incremental index     *)
(* builder, the poll / notification / manual refresh triggers and the      *)
(* discover read path.  One action is one run of the event loop: the code  *)
(* between two awaits of a handler, together with every continuation that  *)
(* the same event resumes.                                                 *)
(***************************************************************************)
EXTENDS Integers, Sequences, FiniteSets, TLC

\* ------------------------------------------------------------------ bounds

\* Consecutive failures a connect loop is followed through.
MaxAttempt == 6
\* Upstream transports that exist (connecting, open or closing) at once.
MaxTransports == 2
\* Reconnect loops that can be represented at once (the code intends one).
MaxReconnectLoops == 2
\* Asynchronous calls (poll fetches, index builds) pending at once.
MaxTasks == 2
\* discover requests awaiting their query embedding at once.
MaxDiscover == 1
\* execute_tool and batch_execute requests in progress at once.
MaxRequests == 1
\* Entries of the `calls` array of a batch_execute request.
MaxBatch == 2
\* Requests the stdio bridge forwards at once.
MaxBridgeRequests == 2
\* HTTP clients the stdio bridge creates in its life.
MaxBridgeClients == 3
\* Proxy processes the tray spawns in its life.
MaxProcs == 3
\* setTimeout(startProxy, 1500) timers pending at once.
MaxTimers == 2
\* Downstream transports the HTTP listener creates in its life.
MaxSessions == 3

\* ------------------------------------------------------------ strings

\* Strings are sequences of UTF-16 code units.
StrBar == <<124>>
StrBar3 == <<124, 124, 124>>
StrNewline == <<10>>
StrEmpty == <<>>

\* Code-unit order, the order of Array.prototype.sort() without comparator.
RECURSIVE StrLess(_, _)
StrLess(a, b) ==
  IF a = <<>> THEN b # <<>>
  ELSE IF b = <<>> THEN FALSE
  ELSE IF Head(a) # Head(b) THEN Head(a) < Head(b)
  ELSE StrLess(Tail(a), Tail(b))

RECURSIVE InsertSorted(_, _)
InsertSorted(s, sorted) ==
  IF sorted = <<>> THEN <<s>>
  ELSE IF StrLess(s, Head(sorted)) THEN <<s>> \o sorted
  ELSE <<Head(sorted)>> \o InsertSorted(s, Tail(sorted))

RECURSIVE SortStrings(_)
SortStrings(ss) ==
  IF ss = <<>> THEN <<>> ELSE InsertSorted(Head(ss), SortStrings(Tail(ss)))

RECURSIVE JoinStrings(_, _)
JoinStrings(ss, sep) ==
  IF ss = <<>> THEN <<>>
  ELSE IF Len(ss) = 1 THEN Head(ss)
  ELSE Head(ss) \o sep \o JoinStrings(Tail(ss), sep)

\* ------------------------------------------------------- upstream catalog

\* An absent (null or undefined) string, told apart from every string.
Null == <<-1>>
\* An absent schema.
NullSchema == [type |-> "null"]

\* Tool names the upstream serves: "a", "b", "c".
Names == {<<97>>, <<98>>, <<99>>}
\* Descriptions: absent, or "x".
Descriptions == {Null, <<120>>}
\* Parameter schemas, opaque objects.
SchemaPlain == [type |-> "object"]
SchemaParam == [type |-> "object", properties |-> "p"]
Schemas == {SchemaPlain, SchemaParam}

\* JSON.stringify(inputSchema ?? {})
JsonStringify(schema) ==
  IF schema = NullSchema THEN <<123, 125>>
  ELSE IF schema = SchemaPlain THEN <<123, 34, 116, 34, 125>>
  ELSE <<123, 34, 116, 34, 44, 34, 112, 34, 125>>

UpstreamTools == [name : Names, description : Descriptions, inputSchema : Schemas]

\* The catalogs over a set of tools: each name at most once, in the order the
\* upstream chooses, maxLen entries at most.
RECURSIVE CatalogsOfLen(_, _)
CatalogsOfLen(tools, n) ==
  IF n = 0 THEN {<<>>}
  ELSE {Append(c, t) : c \in CatalogsOfLen(tools, n - 1), t \in tools}

DistinctNames(c) == \A i, j \in 1..Len(c) : c[i].name = c[j].name => i = j

CatalogsOver(tools, maxLen) ==
  {c \in UNION {CatalogsOfLen(tools, n) : n \in 0..maxLen} : DistinctNames(c)}

\* tool.description ?? ""
DescOf(tool) == IF tool.description = Null THEN StrEmpty ELSE tool.description

\* Mutant of FingerprintLine: the schema is left out.
FingerprintLineNoSchema(t) == t.name \o StrBar \o DescOf(t)

\* `${t.name}|${t.description ?? ""}|${JSON.stringify(t.inputSchema ?? {})}`
FingerprintLine(t) ==
  t.name \o StrBar \o DescOf(t) \o StrBar \o JsonStringify(t.inputSchema)

\* Mutant of fingerprint: the lines are not sorted.
fingerprintUnsorted(tools) ==
  JoinStrings([i \in 1..Len(tools) |-> FingerprintLine(tools[i])], StrNewline)

\* tools.map(line).sort().join("\n")
fingerprint(tools) ==
  JoinStrings(SortStrings([i \in 1..Len(tools) |-> FingerprintLine(tools[i])]),
              StrNewline)

\* ------------------------------------------------------------ embeddings

\* The embedding provider is a black box; these are the vectors it returns.
Vectors == {<<1, 0>>, <<0, 1>>}

\* `${name}|||${description}`, the key of the embedding cache.
CacheKey(name, desc) == name \o StrBar3 \o desc

\* The cache a rebuild seeds from a list of entries; a later entry wins.
CacheFrom(entries) ==
  [k \in {CacheKey(entries[i].name, entries[i].description) : i \in 1..Len(entries)} |->
     LET last == CHOOSE i \in 1..Len(entries) :
                   /\ CacheKey(entries[i].name, entries[i].description) = k
                   /\ \A j \in 1..Len(entries) :
                        CacheKey(entries[j].name, entries[j].description) = k => j <= i
     IN entries[last].embedding]

\* Seeding a cache with more entries: the later source overrides.
CacheMerge(base, more) ==
  [k \in DOMAIN base \cup DOMAIN more |-> IF k \in DOMAIN more THEN more[k] ELSE base[k]]

\* ------------------------------------------------------------------ state

\* routerClient = null
NoClient == 0
\* A buildIndex() call that no connect loop awaits.
NoLoop == 0 - 1
\* A file is a sequence: empty when the file does not exist, else its content.
\* The content is the snapshot whose JSON text it holds in full, or Torn(index)
\* when it holds a proper prefix of that text.
NoFile == <<>>
Torn(index) == [torn |-> index]

\* JSON.parse(readFileSync(file)) succeeds: a proper prefix of a JSON object
\* is no JSON text.
Parses(file) == file # NoFile /\ "tools" \in DOMAIN file[1]
\* sleep(5000) before the reconnect loop starts
ReconnectDelay == 5000

TransportIds == 1..MaxTransports
\* Loop 0 is the startup loop that main() starts; the others are reconnect loops.
MainLoop == 0
ReconnectIds == 1..MaxReconnectLoops
LoopIds == {MainLoop} \cup ReconnectIds
TaskIds == 1..MaxTasks
RequestIds == 1..MaxRequests

VARIABLES
  routerClient,     \* the transport the current client is bound to, or NoClient
  routerConnected,
  toolIndex,        \* the published snapshot
  reindexing,
  reconnecting,
  pollTimer,        \* TRUE while the setInterval timer is armed
  cacheFile,        \* content of CACHE_FILE, or NoFile
  tmpFile,          \* content of CACHE_FILE + ".tmp", or NoFile
  upstream,         \* the catalog the upstream aggregator serves now
  transports,       \* status of every upstream transport
  loops,            \* every connectToRouterWithRetry() call
  tasks,            \* pending poll callbacks and buildIndex() calls
  discovers,        \* discover_tools requests awaiting embed(query)
  requests,         \* execute_tool and batch_execute requests awaiting callTool()
  lastReturn,       \* what the last buildIndex() call returned
  lastDiscover,     \* what the last discover_tools request returned
  lastCall,         \* what each request slot's last execute/batch request returned
  boot,             \* the proxy process from its first statement to main()'s end
  sessions,         \* the HTTP listener's two session tables and their transports
  bridge,           \* the stdio bridge process
  tray              \* the tray process and the proxy process it manages

vars == <<routerClient, routerConnected, toolIndex, reindexing, reconnecting,
          pollTimer, cacheFile, tmpFile, upstream, transports, loops, tasks,
          discovers, requests, lastReturn, lastDiscover, lastCall,
          boot, sessions, bridge, tray>>

\* let toolIndex = { tools: [], indexedAt: "", fingerprint: "" }
EmptyIndex == [tools |-> <<>>, indexedAt |-> 0, fingerprint |-> StrEmpty]

\* new Date().toISOString(): only "differs from the previous stamp" is kept.
NextStamp(stamp) == IF stamp = 1 THEN 2 ELSE 1

ToolEntry(tool, embedding) ==
  [name |-> tool.name, description |-> DescOf(tool),
   inputSchema |-> tool.inputSchema, embedding |-> embedding]

\* toolIndex = { tools: entries, indexedAt: ..., fingerprint: newFingerprint }
NewIndex(entries, newFingerprint, stamp) ==
  [tools |-> entries, indexedAt |-> stamp, fingerprint |-> newFingerprint]

\* Mutant of NoChange: the length test is inverted.
NoChangeWhenEmpty(newFingerprint, index) ==
  newFingerprint = index.fingerprint /\ Len(index.tools) = 0

\* newFingerprint === toolIndex.fingerprint && toolIndex.tools.length > 0
NoChange(newFingerprint, index) ==
  newFingerprint = index.fingerprint /\ Len(index.tools) > 0

\* Mutant of EmbeddingCache: the cache is not seeded from the snapshot.
EmbeddingCacheUnseeded(index, file) ==
  IF file # NoFile /\ Len(index.tools) = 0 /\ Parses(file)
  THEN CacheFrom(file[1].tools)
  ELSE CacheFrom(<<>>)

\* The embedding cache of a rebuild: the previous snapshot, and the persisted
\* file when there is no snapshot in memory yet; a file that does not parse is
\* ignored (`catch { /* ignore */ }`).
EmbeddingCache(index, file) ==
  IF file # NoFile /\ Len(index.tools) = 0 /\ Parses(file)
  THEN CacheMerge(CacheFrom(index.tools), CacheFrom(file[1].tools))
  ELSE CacheFrom(index.tools)

\* Mutant of RemovedCount: the live names that the snapshot lacks are counted.
RemovedCountOfLive(index, live) ==
  Cardinality({j \in 1..Len(live) :
                 \A i \in 1..Len(index.tools) : live[j].name # index.tools[i].name})

\* toolIndex.tools.map(t => t.name).filter(n => !liveNames.has(n)).length
RemovedCount(index, live) ==
  Cardinality({i \in 1..Len(index.tools) :
                 \A j \in 1..Len(live) : live[j].name # index.tools[i].name})

\* The for loop over liveTools up to its next await: entries whose key is
\* cached are pushed without suspending.
RECURSIVE Gather(_, _, _)
Gather(live, cache, entries) ==
  IF Len(entries) = Len(live) THEN entries
  ELSE LET tool == live[Len(entries) + 1]
           key == CacheKey(tool.name, DescOf(tool))
       IN IF key \in DOMAIN cache
          THEN Gather(live, cache, Append(entries, ToolEntry(tool, cache[key])))
          ELSE entries

\* Mutant of BackoffDelay: the cap is missing.
BackoffDelayUncapped(attempt) == 2000 * (2 ^ (attempt - 1))

\* Math.min(2000 * Math.pow(2, attempt - 1), 30000)
BackoffDelay(attempt) ==
  LET raw == 2000 * (2 ^ (attempt - 1))
  IN IF raw < 30000 THEN raw ELSE 30000

\* A connect loop: where it is, its `attempt` counter, the transport of its
\* current iteration, the sleep it is in, and the iterations that have failed
\* in a row since the loop started or last connected.
IdleLoop == [pc |-> "idle", attempt |-> 0, tr |-> 0, delay |-> 0, failed |-> 0]
FreeTask == [pc |-> "free"]
FreeRequest == [pc |-> "free"]

\* A response that came without any callTool(), or none yet.
NoCall(status, input) ==
  [status |-> status, value |-> <<>>, input |-> input, items |-> <<>>,
   forwarded |-> <<>>, order |-> <<>>]

\* catch (e) { attempt++; delay = ...; await sleep(delay) }
Caught(loop) ==
  [pc |-> "backoff", attempt |-> loop.attempt + 1, tr |-> 0,
   delay |-> BackoffDelay(loop.attempt + 1), failed |-> loop.failed + 1]

\* A discover_tools response without results, or none yet.
NoResults(status) ==
  [status |-> status, names |-> <<>>, relevance |-> <<>>, query |-> <<>>,
   limit |-> <<>>]

\* What a buildIndex() call ends with: the { added, removed, unchanged } it
\* returns and the branch it returns from ("threw": it throws instead), and
\* the number of embed() calls it made.
Ret(outcome, added, removed, unchanged, embeds) ==
  [outcome |-> outcome, added |-> added, removed |-> removed,
   unchanged |-> unchanged, embeds |-> embeds]

FreeTasks(tks) == {k \in TaskIds : tks[k].pc = "free"}
FirstFree(tks) == CHOOSE k \in FreeTasks(tks) : \A j \in FreeTasks(tks) : k <= j

SeedFile ==
  LET tool == [name |-> <<97>>, description |-> <<120>>, inputSchema |-> SchemaPlain]
  IN NewIndex(<<ToolEntry(tool, <<0, 1>>)>>, fingerprint(<<tool>>), 1)

\* A downstream transport that has not been created, and no transport.
NoTransport == [kind |-> "none", state |-> "none"]
NoSession == 0
\* An HTTP request as the handlers read it: the path, the method, the session
\* id it carries (NoSession when it carries none) and the kind of its body.
Request(path, method, sid, body) ==
  [path |-> path, method |-> method, sid |-> sid, body |-> body]
NoRequest == Request("none", "none", NoSession, "none")
\* The answer to an HTTP request: the request, the status code, the transport
\* that handled the request and the transport the request created, NoSession
\* when none; `turn` tells an answer from the one before it.
Answer(turn, req, code, via, created) ==
  [turn |-> turn, req |-> req, code |-> code, via |-> via, created |-> created]
\* Before any request has come in over HTTP: both session tables are empty
\* (new Map(), lines 767 and 788) and no transport exists.
NoSessions ==
  [streamable |-> <<>>, sse |-> <<>>,
   trs |-> [t \in 1..MaxSessions |-> NoTransport],
   last |-> Answer(0, NoRequest, 0, NoSession, NoSession)]
\* No stdio bridge has been started.
NoBridge == [pc |-> "none"]
\* No tray has been started.
NoTray == [pc |-> "none"]

\* The proxy process: where it is between its first statement and main()'s
\* call of connectToRouterWithRetry(), what MCPR_TOKEN and HTTP_PORT it found
\* in its environment, whether the embedding model is loaded and the HTTP
\* listener open, and the code it has exited with.
NoExit == 0 - 1
Proxy(pc, token, http, embedder, listening, exitCode) ==
  [pc |-> pc, token |-> token, http |-> http, embedder |-> embedder,
   listening |-> listening, exitCode |-> exitCode]
\* A proxy in HTTP mode that has come as far as connectToRouterWithRetry().
Booted == Proxy("running", [type |-> "string", value |-> <<116>>], TRUE, TRUE, TRUE, NoExit)

\* The module-level state of the proxy when nothing has run yet but the
\* declarations, with the startup connect loop at `mainPc`.
ProxyStart(catalog, file, mainPc) ==
  /\ routerClient = NoClient
  /\ routerConnected = FALSE
  /\ toolIndex = EmptyIndex
  /\ reindexing = FALSE
  /\ reconnecting = FALSE
  /\ pollTimer = FALSE
  /\ cacheFile = file
  /\ tmpFile = NoFile
  /\ upstream = catalog
  /\ transports = [t \in TransportIds |-> "free"]
  /\ loops = [l \in LoopIds |->
                IF l = MainLoop THEN [IdleLoop EXCEPT !.pc = mainPc] ELSE IdleLoop]
  /\ tasks = [k \in TaskIds |-> FreeTask]
  /\ discovers = 0
  /\ requests = [r \in RequestIds |-> FreeRequest]
  /\ lastReturn = Ret("none", 0, 0, 0, 0)
  /\ lastDiscover = NoResults("none")
  /\ lastCall = [r \in RequestIds |-> NoCall("none", <<>>)]

\* The state main() leaves when it calls connectToRouterWithRetry(): no
\* snapshot file from an earlier run, and `catalog` served upstream.
Start(catalog, file) ==
  /\ ProxyStart(catalog, file, "start")
  /\ boot = Booted
  /\ sessions = NoSessions
  /\ bridge = NoBridge
  /\ tray = NoTray

\* ------------------------------------------------------------- buildIndex

\* Mutant of InFlightGuard: the in-flight check is missing.
InFlightGuardMissing(flag) == FALSE

\* `if (reindexing) { ...; return zeros }`
InFlightGuard(flag) == flag

\* buildIndex(reason) up to its first await (lines 494-505).  `client` and
\* `connected` are routerClient and routerConnected as the caller left them,
\* `tks` the task table with the caller's own slot already released.
BuildCall(client, connected, busy, tks, reason, owner) ==
  IF client = NoClient \/ ~connected
  THEN [started |-> FALSE, busy |-> busy, tasks |-> tks,
        ret |-> Ret("notconnected", 0, 0, 0, 0)]
  ELSE IF InFlightGuard(busy)
  THEN [started |-> FALSE, busy |-> busy, tasks |-> tks,
        ret |-> Ret("dropped", 0, 0, 0, 0)]
  ELSE [started |-> TRUE, busy |-> TRUE,
        tasks |-> [tks EXCEPT ![FirstFree(tks)] =
                     [pc |-> "listing", reason |-> reason, owner |-> owner,
                      via |-> client]],
        ret |-> lastReturn]

\* A call that passes both guards needs a slot to be followed in.
CanCall(client, connected, busy, tks) ==
  (client # NoClient /\ connected /\ ~InFlightGuard(busy)) => FreeTasks(tks) # {}

\* The caller of a buildIndex() that has returned or thrown.  Only the connect
\* loop acts on it: startPolling() and return, or its catch block.
AfterBuild(owner, threw, lps) ==
  IF owner = NoLoop
  THEN /\ loops' = lps
       /\ UNCHANGED <<pollTimer, reconnecting>>
  ELSE IF threw
  THEN /\ loops' = [lps EXCEPT ![owner] = Caught(@)]
       /\ UNCHANGED <<pollTimer, reconnecting>>
  ELSE /\ loops' = [lps EXCEPT ![owner] = IdleLoop]
       /\ pollTimer' = TRUE
       /\ reconnecting' = IF owner \in ReconnectIds THEN FALSE ELSE reconnecting

\* Mutant of Persist: the text is written to CACHE_FILE itself.
PersistInPlace(index, final, tmp, stage) ==
  IF stage = "none" THEN [final |-> final, tmp |-> tmp]
  ELSE IF stage = "torn" THEN [final |-> <<Torn(index)>>, tmp |-> tmp]
  ELSE [final |-> <<index>>, tmp |-> tmp]

\* Lines 546-548, `writeFileSync(tmp, JSON.stringify(toolIndex))` then
\* `renameSync(tmp, CACHE_FILE)`, carried out up to `stage`: "none" (tmp could
\* not be opened), "torn" (part of the text is in tmp), "written" (all of the
\* text is in tmp, the rename is not done), "renamed" (all done).  The result
\* is the content of the two paths.
Persist(index, final, tmp, stage) ==
  IF stage = "none" THEN [final |-> final, tmp |-> tmp]
  ELSE IF stage = "torn" THEN [final |-> final, tmp |-> <<Torn(index)>>]
  ELSE IF stage = "written" THEN [final |-> final, tmp |-> <<index>>]
  ELSE [final |-> <<index>>, tmp |-> NoFile]

\* Where a writeFileSync or renameSync that throws has left the two paths.
FailStages == {"none", "torn", "written"}

\* Lines 542-554: publish the snapshot, persist it, return the counts.  `b` is
\* the rebuild with every entry gathered; writeFileSync or renameSync throws
\* when ~writeOk.
Publish(k, b, writeOk) ==
  LET index == NewIndex(b.entries, b.fp, NextStamp(toolIndex.indexedAt))
  IN /\ toolIndex' = index
     /\ \E stage \in IF writeOk THEN {"renamed"} ELSE FailStages :
          LET disk == Persist(index, cacheFile, tmpFile, stage)
          IN cacheFile' = disk.final /\ tmpFile' = disk.tmp
     /\ reindexing' = FALSE
     /\ tasks' = [tasks EXCEPT ![k] = FreeTask]
     /\ lastReturn' =
          IF writeOk
          THEN Ret("published", b.added, b.removed, Len(b.entries) - b.added,
                   b.embeds)
          ELSE Ret("threw", 0, 0, 0, b.embeds)
     /\ AfterBuild(b.owner, ~writeOk, loops)

\* Mutant of Proceed: the entries are built in toolIndex.tools itself.
ProceedInPlace(k, b, writeOk) ==
  IF Len(b.entries) = Len(b.live)
  THEN Publish(k, b, writeOk)
  ELSE /\ tasks' = [tasks EXCEPT ![k] = [b EXCEPT !.embeds = @ + 1]]
       /\ toolIndex' = [toolIndex EXCEPT !.tools = b.entries]
       /\ UNCHANGED <<cacheFile, tmpFile, reindexing, lastReturn, loops, pollTimer,
                      reconnecting>>

\* After the for loop suspended or ended: publish, or call embed() and wait.
Proceed(k, b, writeOk) ==
  IF Len(b.entries) = Len(b.live)
  THEN Publish(k, b, writeOk)
  ELSE /\ tasks' = [tasks EXCEPT ![k] = [b EXCEPT !.embeds = @ + 1]]
       /\ UNCHANGED <<toolIndex, cacheFile, tmpFile, reindexing, lastReturn,
                      loops, pollTimer, reconnecting>>

\* Rebuild k when its listTools() has resolved with a changed catalog: lines
\* 513-535, up to the first embed() or to the end of the for loop.
Listed(k) ==
  LET task == tasks[k]
      live == upstream
      cache == EmbeddingCache(toolIndex, cacheFile)
  IN [pc |-> "embedding", reason |-> task.reason,
      owner |-> task.owner, via |-> task.via, live |-> live,
      fp |-> fingerprint(live), cache |-> cache,
      removed |-> RemovedCount(toolIndex, live),
      entries |-> Gather(live, cache, <<>>), added |-> 0,
      embeds |-> 0]

\* Rebuild k when its embed() has resolved with `vector`: lines 536-540, and
\* the for loop up to the next embed() or to its end.
Embedded(k, vector) ==
  LET b == tasks[k]
      tool == b.live[Len(b.entries) + 1]
      pushed == Append(b.entries, ToolEntry(tool, vector))
  IN [b EXCEPT !.entries = Gather(b.live, b.cache, pushed),
               !.added = b.added + 1]

\* routerClient.listTools() resolves (lines 505-540).
ListOK(k, writeOk) ==
  /\ tasks[k].pc = "listing"
  /\ LET task == tasks[k]
         live == upstream
         newFingerprint == fingerprint(live)
     IN IF NoChange(newFingerprint, toolIndex)
        THEN /\ reindexing' = FALSE
             /\ tasks' = [tasks EXCEPT ![k] = FreeTask]
             /\ lastReturn' = Ret("nochange", 0, 0, Len(live), 0)
             /\ AfterBuild(task.owner, FALSE, loops)
             /\ UNCHANGED <<toolIndex, cacheFile, tmpFile>>
        ELSE Proceed(k, Listed(k), writeOk)
  /\ UNCHANGED <<routerClient, routerConnected, upstream, transports, discovers,
                 lastDiscover, boot, sessions, bridge, tray, requests, lastCall>>

\* embed() resolves with a vector (lines 536-540, then the loop goes on).
EmbedOK(k, vector, writeOk) ==
  /\ tasks[k].pc = "embedding"
  /\ Proceed(k, Embedded(k, vector), writeOk)
  /\ UNCHANGED <<routerClient, routerConnected, upstream, transports, discovers,
                 lastDiscover, boot, sessions, bridge, tray, requests, lastCall>>

\* Mutant of BuildThrows: the rejection leaves buildIndex() with no finally.
BuildThrowsKeepsGuard(k) ==
  /\ reindexing' = reindexing
  /\ tasks' = [tasks EXCEPT ![k] = FreeTask]
  /\ lastReturn' = Ret("threw", 0, 0, 0,
                       IF tasks[k].pc = "embedding" THEN tasks[k].embeds ELSE 0)
  /\ AfterBuild(tasks[k].owner, TRUE, loops)
  /\ UNCHANGED <<toolIndex, cacheFile, tmpFile>>

\* A buildIndex() whose await rejects: finally { reindexing = false }, and the
\* error reaches the caller.
BuildThrows(k) ==
  /\ reindexing' = FALSE
  /\ tasks' = [tasks EXCEPT ![k] = FreeTask]
  /\ lastReturn' = Ret("threw", 0, 0, 0,
                       IF tasks[k].pc = "embedding" THEN tasks[k].embeds ELSE 0)
  /\ AfterBuild(tasks[k].owner, TRUE, loops)
  /\ UNCHANGED <<toolIndex, cacheFile, tmpFile>>

\* listTools() rejects while the transport stays open (an upstream error).
ListFail(k) ==
  /\ tasks[k].pc = "listing"
  /\ tasks[k].owner # NoLoop => loops[tasks[k].owner].attempt < MaxAttempt
  /\ BuildThrows(k)
  /\ UNCHANGED <<routerClient, routerConnected, upstream, transports, discovers,
                 lastDiscover, boot, sessions, bridge, tray, requests, lastCall>>

\* embed() rejects.
EmbedFail(k) ==
  /\ tasks[k].pc = "embedding"
  /\ tasks[k].owner # NoLoop => loops[tasks[k].owner].attempt < MaxAttempt
  /\ BuildThrows(k)
  /\ UNCHANGED <<routerClient, routerConnected, upstream, transports, discovers,
                 lastDiscover, boot, sessions, bridge, tray, requests, lastCall>>

\* ----------------------------------------------------------- process kill

\* The process is killed and started again: what it held in memory is gone,
\* `disk` is what the two paths hold, and main() is back at its call of
\* connectToRouterWithRetry().  The upstream sees its connections closed.
Restart(disk) ==
  /\ routerClient' = NoClient
  /\ routerConnected' = FALSE
  /\ toolIndex' = EmptyIndex
  /\ reindexing' = FALSE
  /\ reconnecting' = FALSE
  /\ pollTimer' = FALSE
  /\ cacheFile' = disk.final
  /\ tmpFile' = disk.tmp
  /\ transports' = [t \in TransportIds |-> "free"]
  /\ loops' = [l \in LoopIds |->
                 IF l = MainLoop THEN [IdleLoop EXCEPT !.pc = "start"] ELSE IdleLoop]
  /\ tasks' = [k \in TaskIds |-> FreeTask]
  /\ discovers' = 0
  /\ requests' = [r \in RequestIds |-> FreeRequest]
  /\ lastReturn' = Ret("none", 0, 0, 0, 0)
  /\ lastDiscover' = NoResults("none")
  /\ lastCall' = [r \in RequestIds |-> NoCall("none", <<>>)]
  /\ sessions' = NoSessions
  /\ UNCHANGED <<upstream, boot, bridge, tray>>

\* The process is killed between two of its handlers.
Kill ==
  /\ loops[MainLoop].pc # "start"
  /\ Restart([final |-> cacheFile, tmp |-> tmpFile])

\* The process is killed inside lines 546-548 of rebuild k, whose listTools()
\* or embed() has just resolved with the last entry it waited for: the text is
\* partly in tmp ("torn") or wholly in tmp and not renamed ("written").
KillInPersist(k, vector, stage) ==
  /\ tasks[k].pc \in {"listing", "embedding"}
  /\ tasks[k].pc = "listing" => ~NoChange(fingerprint(upstream), toolIndex)
  /\ LET b == IF tasks[k].pc = "listing" THEN Listed(k) ELSE Embedded(k, vector)
         index == NewIndex(b.entries, b.fp, NextStamp(toolIndex.indexedAt))
     IN /\ Len(b.entries) = Len(b.live)
        /\ Restart(Persist(index, cacheFile, tmpFile, stage))

\* ------------------------------------------- execute_tool and batch_execute

\* Argument values as the handlers tell them apart: by typeof, and a string
\* by its characters.
Undefined == [type |-> "undefined"]
NullValue == [type |-> "null"]
Str(chars) == [type |-> "string", value |-> chars]
Num(n) == [type |-> "number", value |-> n]
Obj(keys) == [type |-> "object", keys |-> keys]

\* String.prototype.trim(): white space goes from both ends.
IsSpace(c) == c \in {9, 10, 13, 32}
RECURSIVE TrimStart(_)
TrimStart(chars) ==
  IF chars # <<>> /\ IsSpace(Head(chars)) THEN TrimStart(Tail(chars)) ELSE chars
RECURSIVE TrimEnd(_)
TrimEnd(chars) ==
  IF chars # <<>> /\ IsSpace(chars[Len(chars)])
  THEN TrimEnd(SubSeq(chars, 1, Len(chars) - 1))
  ELSE chars
Trim(chars) == TrimEnd(TrimStart(chars))

\* The negation of `typeof toolName !== "string" || !toolName.trim()`.
UsableName(toolName) == toolName.type = "string" /\ Trim(toolName.value) # <<>>

\* args?.arguments ?? {}
ArgsOf(arguments) ==
  IF arguments.type \in {"undefined", "null"} THEN Obj(<<>>) ELSE arguments

\* The request callTool() sends: the name as given, untrimmed.
CallOf(toolName, arguments) == [name |-> toolName, arguments |-> ArgsOf(arguments)]

\* The check of the whole `calls` array that comes before any dispatch:
\* the first entry only.
ValidBatchFirstEntry(calls) ==
  /\ calls.isArray
  /\ Len(calls.items) > 0
  /\ UsableName(calls.items[1].tool_name)

\* The check of the whole `calls` array that comes before any dispatch.
ValidBatch(calls) ==
  /\ calls.isArray
  /\ Len(calls.items) > 0
  /\ \A i \in 1..Len(calls.items) : UsableName(calls.items[i].tool_name)

\* What callTool() resolves with, and what it rejects with.
UpstreamResults == {[content |-> <<111>>, isError |-> FALSE],
                    [content |-> <<120>>, isError |-> TRUE]}
UpstreamErrors == {[name |-> <<77>>, message |-> <<116>>]}
\* The SDK's rejection of the requests pending when the transport closes.
ClosedError == [name |-> <<77>>, message |-> <<99>>]

\* String(e) of an Error: its name, ": ", its message.
StringOf(e) == e.name \o <<58, 32>> \o e.message

\* A handler waiting for its callTool() promises: the client it called, the
\* arguments it came with, one item per callTool() promise, the calls sent so
\* far and the order in which the promises have settled.
NewRequest(kind, client, input, callsOut) ==
  [pc |-> "calling", kind |-> kind, via |-> client, input |-> input,
   items |-> [i \in 1..Len(callsOut) |->
                [call |-> callsOut[i], state |-> "pending", value |-> <<>>]],
   forwarded |-> callsOut,
   order |-> <<>>]

\* Promise i of the request settles; a rejected call is sent once more.
SettledRetrying(req, i, ok, value) ==
  IF ~ok /\ Len(req.forwarded) = Len(req.items)
  THEN [req EXCEPT !.forwarded = Append(@, req.items[i].call)]
  ELSE [req EXCEPT !.items[i] = [@ EXCEPT !.state = IF ok THEN "ok" ELSE "failed",
                                          !.value = value],
                   !.order = Append(@, i)]

\* Promise i of the request settles: resolved with `value` or rejected with it.
Settled(req, i, ok, value) ==
  [req EXCEPT !.items[i] = [@ EXCEPT !.state = IF ok THEN "ok" ELSE "failed",
                                     !.value = value],
              !.order = Append(@, i)]

AllSettled(req) == \A i \in 1..Len(req.items) : req.items[i].state # "pending"

\* What the async callback of calls.map() returns for its call.
BatchResult(item) ==
  IF item.state = "ok"
  THEN [tool_name |-> item.call.name, success |-> TRUE, result |-> item.value]
  ELSE [tool_name |-> item.call.name, success |-> FALSE, error |-> StringOf(item.value)]

\* The array Promise.all() resolves with: in the order the promises settled.
BatchResultsAsSettled(items, order) ==
  [i \in 1..Len(items) |-> BatchResult(items[order[i]])]

\* The array Promise.all() resolves with: result i is that of promise i.
BatchResults(items, order) ==
  [i \in 1..Len(items) |-> BatchResult(items[i])]

\* The response of a handler whose promises have all settled.  execute_tool
\* returns what callTool() resolved with and throws what it rejected with.
Respond(req) ==
  [status |-> IF req.kind = "batch" THEN "batch"
              ELSE IF req.items[1].state = "ok" THEN "result" ELSE "thrown",
   value |-> IF req.kind = "batch"
             THEN BatchResults(req.items, req.order)
             ELSE req.items[1].value,
   input |-> req.input, items |-> req.items,
   forwarded |-> req.forwarded, order |-> req.order]

NextRequest(req) == IF AllSettled(req) THEN FreeRequest ELSE req
NextResponse(req, last) == IF AllSettled(req) THEN Respond(req) ELSE last

\* The transport closes under a request: its pending promises are rejected in
\* the order the calls were sent.
RECURSIVE RejectFrom(_, _)
RejectFrom(req, i) ==
  IF i > Len(req.items) THEN req
  ELSE RejectFrom(IF req.items[i].state = "pending"
                  THEN Settled(req, i, FALSE, ClosedError)
                  ELSE req,
                  i + 1)

\* The requests waiting for an answer on transport t.
CallingVia(reqs, t) == {r \in RequestIds : reqs[r].pc = "calling" /\ reqs[r].via = t}

RouterUnchanged ==
  UNCHANGED <<routerClient, routerConnected, toolIndex, reindexing, reconnecting,
              pollTimer, cacheFile, tmpFile, upstream, transports, loops, tasks,
              discovers, lastReturn, lastDiscover, boot, sessions, bridge, tray>>

\* The execute_tool handler up to its await (lines 694-707).
ExecuteCall(r, toolName, arguments) ==
  /\ requests[r].pc = "free"
  /\ LET input == [tool_name |-> toolName, arguments |-> arguments]
     IN IF routerClient = NoClient \/ ~routerConnected
        THEN /\ lastCall' = [lastCall EXCEPT ![r] = NoCall("notready", input)]
             /\ UNCHANGED requests
        ELSE IF ~UsableName(toolName)
        THEN /\ lastCall' = [lastCall EXCEPT ![r] = NoCall("invalid", input)]
             /\ UNCHANGED requests
        ELSE /\ requests' = [requests EXCEPT ![r] =
                               NewRequest("execute", routerClient, input,
                                          <<CallOf(toolName, arguments)>>)]
             /\ lastCall' = [lastCall EXCEPT ![r] = NoCall("pending", input)]
  /\ RouterUnchanged

\* The batch_execute handler up to its await (lines 709-737): calls.map() runs
\* every callback up to its callTool() before Promise.all() is awaited.
BatchCall(r, calls) ==
  /\ requests[r].pc = "free"
  /\ IF routerClient = NoClient \/ ~routerConnected
     THEN /\ lastCall' = [lastCall EXCEPT ![r] = NoCall("notready", calls)]
          /\ UNCHANGED requests
     ELSE IF ~ValidBatch(calls)
     THEN /\ lastCall' = [lastCall EXCEPT ![r] = NoCall("invalid", calls)]
          /\ UNCHANGED requests
     ELSE /\ requests' = [requests EXCEPT ![r] =
                            NewRequest("batch", routerClient, calls,
                                       [i \in 1..Len(calls.items) |->
                                          CallOf(calls.items[i].tool_name,
                                                 calls.items[i].arguments)])]
          /\ lastCall' = [lastCall EXCEPT ![r] = NoCall("pending", calls)]
  /\ RouterUnchanged

\* The upstream answers call i of request r; the handler returns when its
\* last promise has settled.
CallSettles(r, i, ok, value) ==
  /\ requests[r].pc = "calling"
  /\ i \in 1..Len(requests[r].items)
  /\ requests[r].items[i].state = "pending"
  /\ transports[requests[r].via] = "open"
  /\ LET req == Settled(requests[r], i, ok, value)
     IN /\ requests' = [requests EXCEPT ![r] = NextRequest(req)]
        /\ lastCall' = [lastCall EXCEPT ![r] = NextResponse(req, @)]
  /\ RouterUnchanged

CallOK(r, i, result) == CallSettles(r, i, TRUE, result)
CallFail(r, i, error) == CallSettles(r, i, FALSE, error)

\* ------------------------------------------------- connection supervisor

FreeTransports == {t \in TransportIds : transports[t] = "free"}
FreeLoops == {r \in ReconnectIds : loops[r].pc = "idle"}

\* Mutant of StartsReconnect: the re-entrancy guard is missing.
StartsReconnectAlways(flag) == TRUE

\* `if (reconnecting) return;` in transport.onclose
StartsReconnect(flag) == ~flag

\* Mutant of OnCloseState: the poll timer is left armed.
OnCloseKeepsTimer == [connected |-> FALSE, client |-> NoClient, timer |-> pollTimer]

\* What transport.onclose assigns first: routerConnected = false,
\* routerClient = null, clearInterval(pollTimer) and pollTimer = null.
OnCloseState == [connected |-> FALSE, client |-> NoClient, timer |-> FALSE]

\* An iteration of the while loop up to `await client.connect(transport)`
\* (lines 433-466).  It is entered when connectToRouterWithRetry() is called
\* (by main, or by the timer onclose set) and after every backoff sleep.
StartAttempt(l) ==
  /\ loops[l].pc \in {"start", "sleeping", "backoff"}
  /\ FreeTransports # {}
  /\ LET t == CHOOSE x \in FreeTransports : \A y \in FreeTransports : x <= y
     IN /\ transports' = [transports EXCEPT ![t] = "connecting"]
        /\ loops' = [loops EXCEPT ![l] =
                       [pc |-> "connecting", attempt |-> @.attempt, tr |-> t,
                        delay |-> 0, failed |-> @.failed]]
  /\ UNCHANGED <<routerClient, routerConnected, toolIndex, reindexing, reconnecting,
                 pollTimer, cacheFile, tmpFile, upstream, tasks, discovers, lastReturn,
                 lastDiscover, boot, sessions, bridge, tray, requests, lastCall>>

\* client.connect() resolves: lines 467-480 up to the await inside
\* buildIndex("startup"), or to the return when buildIndex returns at once.
ConnectOK(l) ==
  /\ loops[l].pc = "connecting"
  /\ LET t == loops[l].tr
         call == BuildCall(t, TRUE, reindexing, tasks, "startup", l)
     IN /\ CanCall(t, TRUE, reindexing, tasks)
        /\ transports' = [transports EXCEPT ![t] = "open"]
        /\ routerClient' = t
        /\ routerConnected' = TRUE
        /\ reindexing' = call.busy
        /\ tasks' = call.tasks
        /\ lastReturn' = call.ret
        /\ IF call.started
           THEN /\ loops' = [loops EXCEPT ![l] =
                               [pc |-> "indexing", attempt |-> 0, tr |-> t,
                                delay |-> 0, failed |-> 0]]
                /\ UNCHANGED <<pollTimer, reconnecting>>
           ELSE AfterBuild(l, FALSE, loops)
  /\ UNCHANGED <<toolIndex, cacheFile, tmpFile, upstream, discovers, lastDiscover, boot,
            sessions, bridge, tray,
            requests, lastCall>>

\* client.connect() rejects without a close event having been delivered
\* (lines 482-488).  The SDK then closes the transport: its close event is
\* still to come (closing), or never comes.
ConnectFail(l, closing) ==
  /\ loops[l].pc = "connecting"
  /\ loops[l].attempt < MaxAttempt
  /\ transports' = [transports EXCEPT ![loops[l].tr] =
                      IF closing THEN "closing" ELSE "free"]
  /\ loops' = [loops EXCEPT ![l] = Caught(@)]
  /\ UNCHANGED <<routerClient, routerConnected, toolIndex, reindexing, reconnecting,
                 pollTimer, cacheFile, tmpFile, upstream, tasks, discovers, lastReturn,
                 lastDiscover, boot, sessions, bridge, tray, requests, lastCall>>

\* The close event of transport t: transport.onclose (lines 452-462), then
\* the SDK rejects every request pending on t, whose callers resume at once.
Close(t) ==
  /\ transports[t] # "free"
  /\ LET connecting == {l \in LoopIds : loops[l].pc = "connecting" /\ loops[l].tr = t}
         rejected == {k \in TaskIds : /\ tasks[k].pc \in {"listing", "pollfetch"}
                                      /\ tasks[k].via = t}
         builds == {k \in rejected : tasks[k].pc = "listing"}
         owners == {tasks[k].owner : k \in builds} \ {NoLoop}
         scheduled ==
           IF StartsReconnect(reconnecting)
           THEN [loops EXCEPT ![CHOOSE r \in FreeLoops : \A q \in FreeLoops : r <= q] =
                   [pc |-> "sleeping", attempt |-> 0, tr |-> 0,
                    delay |-> ReconnectDelay, failed |-> 0]]
           ELSE loops
     IN /\ StartsReconnect(reconnecting) => FreeLoops # {}
        /\ \A l \in connecting \cup owners : loops[l].attempt < MaxAttempt
        /\ routerConnected' = OnCloseState.connected
        /\ routerClient' = OnCloseState.client
        /\ pollTimer' = OnCloseState.timer
        /\ reconnecting' = TRUE
        /\ loops' = [l \in LoopIds |->
                       IF l \in connecting \cup owners
                       THEN Caught(scheduled[l]) ELSE scheduled[l]]
        /\ tasks' = [k \in TaskIds |-> IF k \in rejected THEN FreeTask ELSE tasks[k]]
        /\ reindexing' = IF builds # {} THEN FALSE ELSE reindexing
        /\ lastReturn' =
             IF builds # {}
             THEN Ret("threw", 0, 0, 0, 0)
             ELSE lastReturn
        /\ transports' = [transports EXCEPT ![t] = "free"]
        /\ requests' = [r \in RequestIds |->
                          IF r \in CallingVia(requests, t)
                          THEN NextRequest(RejectFrom(requests[r], 1))
                          ELSE requests[r]]
        /\ lastCall' = [r \in RequestIds |->
                          IF r \in CallingVia(requests, t)
                          THEN NextResponse(RejectFrom(requests[r], 1), lastCall[r])
                          ELSE lastCall[r]]
  /\ UNCHANGED <<toolIndex, cacheFile, tmpFile, upstream, discovers, lastDiscover, boot,
            sessions, bridge, tray>>

\* --------------------------------------------------------------- triggers

\* A ToolListChanged notification arrives on an open transport (lines 473-476).
Notify(t) ==
  /\ transports[t] = "open"
  /\ CanCall(routerClient, routerConnected, reindexing, tasks)
  /\ LET call == BuildCall(routerClient, routerConnected, reindexing, tasks,
                           "notification", NoLoop)
     IN /\ reindexing' = call.busy
        /\ tasks' = call.tasks
        /\ lastReturn' = call.ret
  /\ UNCHANGED <<routerClient, routerConnected, toolIndex, reconnecting, pollTimer,
                 cacheFile, tmpFile, upstream, transports, loops, discovers,
                 lastDiscover, boot, sessions, bridge, tray, requests, lastCall>>

\* refresh_tools (lines 743-753) up to the await inside buildIndex("manual").
Refresh ==
  /\ CanCall(routerClient, routerConnected, reindexing, tasks)
  /\ LET call == BuildCall(routerClient, routerConnected, reindexing, tasks,
                           "manual", NoLoop)
     IN /\ reindexing' = call.busy
        /\ tasks' = call.tasks
        /\ lastReturn' = call.ret
  /\ UNCHANGED <<routerClient, routerConnected, toolIndex, reconnecting, pollTimer,
                 cacheFile, tmpFile, upstream, transports, loops, discovers,
                 lastDiscover, boot, sessions, bridge, tray, requests, lastCall>>

\* The interval timer fires (lines 559-562, up to the await on listTools).
PollTick ==
  /\ pollTimer
  /\ routerClient # NoClient /\ routerConnected
  /\ FreeTasks(tasks) # {}
  /\ tasks' = [tasks EXCEPT ![FirstFree(tasks)] =
                 [pc |-> "pollfetch", reason |-> "poll", owner |-> NoLoop,
                  via |-> routerClient]]
  /\ UNCHANGED <<routerClient, routerConnected, toolIndex, reindexing, reconnecting,
                 pollTimer, cacheFile, tmpFile, upstream, transports, loops, discovers,
                 lastReturn, lastDiscover, boot, sessions, bridge, tray, requests,
                 lastCall>>

\* Mutant of PollDetects: only the number of tools is compared.
PollDetectsCount(live, index) == Len(live) # Len(index.tools)

\* fingerprint(liveTools) !== toolIndex.fingerprint
PollDetects(live, index) == fingerprint(live) # index.fingerprint

\* The poll's listTools() resolves (lines 563-566).
PollFetchOK(k) ==
  /\ tasks[k].pc = "pollfetch"
  /\ LET released == [tasks EXCEPT ![k] = FreeTask]
         call == BuildCall(routerClient, routerConnected, reindexing, released,
                           "poll", NoLoop)
     IN IF PollDetects(upstream, toolIndex)
        THEN /\ reindexing' = call.busy
             /\ tasks' = call.tasks
             /\ lastReturn' = call.ret
        ELSE /\ tasks' = released
             /\ UNCHANGED <<reindexing, lastReturn>>
  /\ UNCHANGED <<routerClient, routerConnected, toolIndex, reconnecting, pollTimer,
                 cacheFile, tmpFile, upstream, transports, loops, discovers,
                 lastDiscover, boot, sessions, bridge, tray, requests, lastCall>>

\* The poll's listTools() rejects while the transport stays open (line 567).
PollFetchFail(k) ==
  /\ tasks[k].pc = "pollfetch"
  /\ tasks' = [tasks EXCEPT ![k] = FreeTask]
  /\ UNCHANGED <<routerClient, routerConnected, toolIndex, reindexing, reconnecting,
                 pollTimer, cacheFile, tmpFile, upstream, transports, loops, discovers,
                 lastReturn, lastDiscover, boot, sessions, bridge, tray, requests,
                 lastCall>>

\* One change of a catalog: a tool's description or schema is replaced, a
\* tool is added or removed, or two tools change places.
WithoutAt(c, i) == SubSeq(c, 1, i - 1) \o SubSeq(c, i + 1, Len(c))

OneEdit(c, d) ==
  \/ /\ Len(c) = Len(d)
     /\ Cardinality({i \in 1..Len(c) : c[i] # d[i]}) = 1
     /\ \A i \in 1..Len(c) : c[i].name = d[i].name
  \/ \E i \in 1..Len(c) : d = WithoutAt(c, i)
  \/ \E i \in 1..Len(d) : c = WithoutAt(d, i)
  \/ /\ Len(c) = Len(d)
     /\ c # d
     /\ \E i, j \in 1..Len(c) :
          d = [c EXCEPT ![i] = c[j], ![j] = c[i]]

\* The upstream aggregator changes the catalog it serves.
UpstreamChange(catalog) ==
  /\ OneEdit(upstream, catalog)
  /\ upstream' = catalog
  /\ UNCHANGED <<routerClient, routerConnected, toolIndex, reindexing, reconnecting,
                 pollTimer, cacheFile, tmpFile, transports, loops, tasks, discovers,
                 lastReturn, lastDiscover, boot, sessions, bridge, tray, requests,
                 lastCall>>

\* ---------------------------------------------------------------- ranking

\* A similarity is kept exact: the number num / sqrt(den2), or NaN.
ZeroScore == [nan |-> FALSE, num |-> 0, den2 |-> 1]
NaNScore == [nan |-> TRUE, num |-> 0, den2 |-> 1]

RECURSIVE SumTo(_, _)
SumTo(f, n) == IF n = 0 THEN 0 ELSE SumTo(f, n - 1) + f[n]

\* Mutant of cosine: the zero test is missing, and 0 / 0 is NaN.
cosineUnguarded(a, b) ==
  LET dot == SumTo([i \in 1..Len(a) |-> a[i] * b[i]], Len(a))
      magA == SumTo([i \in 1..Len(a) |-> a[i] * a[i]], Len(a))
      magB == SumTo([i \in 1..Len(a) |-> b[i] * b[i]], Len(a))
  IN IF magA * magB = 0 THEN NaNScore
     ELSE [nan |-> FALSE, num |-> dot, den2 |-> magA * magB]

\* cosine(a, b), lines 411-420: dot / (sqrt(magA) * sqrt(magB)), and 0 when
\* the denominator is 0.
cosine(a, b) ==
  LET dot == SumTo([i \in 1..Len(a) |-> a[i] * b[i]], Len(a))
      magA == SumTo([i \in 1..Len(a) |-> a[i] * a[i]], Len(a))
      magB == SumTo([i \in 1..Len(a) |-> b[i] * b[i]], Len(a))
  IN IF magA * magB = 0 THEN ZeroScore
     ELSE [nan |-> FALSE, num |-> dot, den2 |-> magA * magB]

\* Mutant of SortsBefore: the comparator is a.score - b.score.
SortsBeforeAscending(x, y) ==
  /\ ~x.nan /\ ~y.nan
  /\ IF x.num >= 0 /\ y.num < 0 THEN FALSE
     ELSE IF x.num < 0 /\ y.num >= 0 THEN TRUE
     ELSE IF x.num >= 0
          THEN x.num * x.num * y.den2 < y.num * y.num * x.den2
          ELSE x.num * x.num * y.den2 > y.num * y.num * x.den2

\* The comparator (a, b) => b.score - a.score is negative, so that a sorts
\* before b: a.score > b.score.  A difference with NaN is NaN, which sort()
\* takes for 0.
SortsBefore(x, y) ==
  /\ ~x.nan /\ ~y.nan
  /\ IF x.num >= 0 /\ y.num < 0 THEN TRUE
     ELSE IF x.num < 0 /\ y.num >= 0 THEN FALSE
     ELSE IF x.num >= 0
          THEN x.num * x.num * y.den2 > y.num * y.num * x.den2
          ELSE x.num * x.num * y.den2 < y.num * y.num * x.den2

\* Array.prototype.sort is stable: an element goes behind every element the
\* comparator does not put it before.
RECURSIVE InsertByScore(_, _)
InsertByScore(x, sorted) ==
  IF sorted = <<>> THEN <<x>>
  ELSE IF SortsBefore(x.score, Head(sorted).score) THEN <<x>> \o sorted
  ELSE <<Head(sorted)>> \o InsertByScore(x, Tail(sorted))

RECURSIVE SortByScore(_)
SortByScore(scored) ==
  IF scored = <<>> THEN <<>>
  ELSE InsertByScore(scored[Len(scored)],
                     SortByScore(SubSeq(scored, 1, Len(scored) - 1)))

\* DISCOVER_LIMIT when the environment does not set it
DiscoverLimit == 10

\* (args?.limit as number) ?? DISCOVER_LIMIT: the argument is <<>> when the
\* caller gives none, else <<n>>.
LimitOf(arg) == IF arg = <<>> THEN DiscoverLimit ELSE arg[1]

\* seq.slice(0, limit): a negative end counts from the end of the array.
Slice(seq, limit) ==
  LET end == IF limit < 0
             THEN (IF Len(seq) + limit < 0 THEN 0 ELSE Len(seq) + limit)
             ELSE (IF limit < Len(seq) THEN limit ELSE Len(seq))
  IN SubSeq(seq, 1, end)

\* a / c <= e / b for a, e >= 0 and b, c > 0, by the continued fractions of
\* the two, so that no product leaves the integers at hand.
RECURSIVE FracLeq(_, _, _, _)
FracLeq(a, c, e, b) ==
  LET q1 == a \div c
      q2 == e \div b
      r1 == a % c
      r2 == e % b
  IN IF q1 # q2 THEN q1 < q2
     ELSE IF r1 = 0 THEN TRUE
     ELSE IF r2 = 0 THEN FALSE
     ELSE FracLeq(b, r2, c, r1)

\* n - 1/2 <= 10^4 * m / sqrt(d), for n >= 1: (2n - 1)^2 / m^2 <= 4 * 10^8 / d
HalfBelow(n, m, d) == FracLeq((2 * n - 1) * (2 * n - 1), m * m, 400000000, d)

RECURSIVE LargestHalfBelow(_, _, _, _)
LargestHalfBelow(lo, hi, m, d) ==
  IF lo = hi THEN lo
  ELSE LET mid == (lo + hi + 1) \div 2
       IN IF HalfBelow(mid, m, d)
          THEN LargestHalfBelow(mid, hi, m, d)
          ELSE LargestHalfBelow(lo, mid - 1, m, d)

\* What JSON.stringify makes of NaN is no number.
NaN == 0 - 99999

\* parseFloat(score.toFixed(4)), in units of 0.0001: the magnitude is rounded
\* to the nearest unit, a half upward, and the sign put back.
Relevance(score) ==
  IF score.nan THEN NaN
  ELSE IF score.num = 0 THEN 0
  ELSE LET m == IF score.num < 0 THEN 0 - score.num ELSE score.num
           n == LargestHalfBelow(0, 10000, m, score.den2)
       IN IF score.num < 0 THEN 0 - n ELSE n

\* Lines 674-677: map to scores, sort, slice.
Rank(tools, queryEmbedding, limit) ==
  Slice(SortByScore([i \in 1..Len(tools) |->
                       [tool |-> tools[i],
                        score |-> cosine(queryEmbedding, tools[i].embedding)]]),
        limit)

\* --------------------------------------------------------------- discover

\* discover_tools up to `await embed(query)` (lines 661-673), for a valid query.
DiscoverCall ==
  /\ IF ~routerConnected \/ Len(toolIndex.tools) = 0
     THEN /\ lastDiscover' = NoResults("notready")
          /\ UNCHANGED discovers
     ELSE /\ discovers < MaxDiscover
          /\ discovers' = discovers + 1
          /\ UNCHANGED lastDiscover
  /\ UNCHANGED <<routerClient, routerConnected, toolIndex, reindexing, reconnecting,
                 pollTimer, cacheFile, tmpFile, upstream, transports, loops, tasks,
                 lastReturn, requests, lastCall, boot, sessions, bridge, tray>>

\* embed(query) resolves with queryEmbedding: the handler reads toolIndex.tools
\* once and ranks it (lines 674-691).  `limit` is the argument the request
\* came with; it acts in the slice only.
DiscoverDone(queryEmbedding, limit) ==
  /\ discovers > 0
  /\ discovers' = discovers - 1
  /\ LET results == Rank(toolIndex.tools, queryEmbedding, LimitOf(limit))
     IN lastDiscover' =
          [status |-> "ok",
           names |-> [i \in 1..Len(results) |-> results[i].tool.name],
           relevance |-> [i \in 1..Len(results) |-> Relevance(results[i].score)],
           query |-> queryEmbedding,
           limit |-> limit]
  /\ UNCHANGED <<routerClient, routerConnected, toolIndex, reindexing, reconnecting,
                 pollTimer, cacheFile, tmpFile, upstream, transports, loops, tasks,
                 lastReturn, requests, lastCall, boot, sessions, bridge, tray>>

\* ---------------------------------------------------------------- startup

ProxyUnchanged ==
  UNCHANGED <<routerClient, routerConnected, toolIndex, reindexing, reconnecting,
              pollTimer, cacheFile, tmpFile, upstream, transports, loops, tasks,
              discovers, requests, lastReturn, lastDiscover, lastCall>>

\* Mutant of TokenMissing: only an unset variable counts as missing.
TokenUnset(env) == env.type = "undefined"

\* const MCPR_TOKEN = process.env.MCPR_TOKEN ?? ""; if (!MCPR_TOKEN) ...
TokenMissing(env) == (IF env.type = "undefined" THEN <<>> ELSE env.value) = <<>>

\* The module's top-level statements up to main()'s first await: the
\* credential check (lines 337-345), which ends the process with code 1, then
\* the call of main(), which waits for the embedding model (lines 832-834).
CheckToken ==
  /\ boot.pc = "toplevel"
  /\ boot' = IF TokenMissing(boot.token)
             THEN [boot EXCEPT !.pc = "exited", !.exitCode = 1]
             ELSE [boot EXCEPT !.pc = "loading"]
  /\ ProxyUnchanged
  /\ UNCHANGED <<sessions, bridge, tray>>

\* pipeline(...) resolves: main() opens the HTTP listener when HTTP_PORT is
\* set, the stdio transport otherwise, and calls connectToRouterWithRetry()
\* (lines 834-846).
ModelLoaded ==
  /\ boot.pc = "loading"
  /\ boot' = [boot EXCEPT !.pc = "running", !.embedder = TRUE, !.listening = boot.http]
  /\ loops' = [loops EXCEPT ![MainLoop] = [@ EXCEPT !.pc = "start"]]
  /\ UNCHANGED <<routerClient, routerConnected, toolIndex, reindexing, reconnecting,
                 pollTimer, cacheFile, tmpFile, upstream, transports, tasks, discovers,
                 requests, lastReturn, lastDiscover, lastCall, sessions, bridge, tray>>

\* pipeline(...) rejects: main().catch writes the error and exits with code 1
\* (lines 848-851).
ModelFails ==
  /\ boot.pc = "loading"
  /\ boot' = [boot EXCEPT !.pc = "exited", !.exitCode = 1]
  /\ ProxyUnchanged
  /\ UNCHANGED <<sessions, bridge, tray>>

\* ------------------------------------------------------------ stdio bridge

BridgeIds == 1..MaxBridgeRequests
\* let httpClient: Client | null = null
NoHttpClient == 0
\* What fn(client) resolves with, and what it or connectWithRetry() rejects with.
BridgeResults == {<<111>>}
BridgeErrors == {<<101>>, <<102>>}
\* fn(client) rejects with <<101>> when the request could not be sent (the
\* connection is dead), and with <<102>> when the proxy received the request
\* and answered it with an error.
ReachedProxy(error) == error = <<102>>

\* A callWithReconnect() call: free, or where it waits ("connecting": for the
\* connectWithRetry() inside getClient(); "calling": for fn(client)), whether
\* it is still inside its try block, and the clients fn was invoked with.
FreeCall == [pc |-> "free"]
BridgeCallAt(pc, inTry, calls) == [pc |-> pc, inTry |-> inTry, calls |-> calls]
NoAnswer(status) == [status |-> status, value |-> <<>>, calls |-> <<>>]

\* The bridge when main() has connected eagerly and the server is ready
\* (stdio-bridge.ts lines 73-95): client 1 is the current one.  `received`
\* counts, for the request in each slot, the times the proxy received it.
BridgeReady ==
  [pc |-> "ready", httpClient |-> 1, created |-> 1,
   reqs |-> [q \in BridgeIds |-> FreeCall],
   last |-> [q \in BridgeIds |-> NoAnswer("none")],
   received |-> [q \in BridgeIds |-> 0]]

\* getClient() up to its await, then fn: with a client at hand fn is invoked
\* at once, without one connectWithRetry() is awaited first.
GetClient(b, q, inTry, calls) ==
  IF b.httpClient # NoHttpClient
  THEN [b EXCEPT !.reqs[q] = BridgeCallAt("calling", inTry, Append(calls, b.httpClient))]
  ELSE [b EXCEPT !.reqs[q] = BridgeCallAt("connecting", inTry, calls)]

\* Mutant of Caught1: the catch block runs for every failure.
CaughtAlways(req) == TRUE

\* A rejection is caught by callWithReconnect() only inside its try block.
Caught1(req) == req.inTry

\* An await of call q rejects with `error`: inside the try block the catch
\* block clears httpClient and calls getClient() and fn once more; outside it
\* the rejection is the caller's.
Rejects(b, q, error) ==
  IF Caught1(b.reqs[q])
  THEN GetClient([b EXCEPT !.httpClient = NoHttpClient], q, FALSE, b.reqs[q].calls)
  ELSE [b EXCEPT !.reqs[q] = FreeCall,
                 !.last[q] = [status |-> "thrown", value |-> error,
                              calls |-> b.reqs[q].calls]]

BridgeUnchanged ==
  /\ ProxyUnchanged
  /\ UNCHANGED <<boot, sessions, tray>>

\* A tools/list or tools/call request arrives (lines 84-91, 62).
BridgeCall(q) ==
  /\ bridge.pc = "ready"
  /\ bridge.reqs[q].pc = "free"
  /\ bridge' = GetClient([bridge EXCEPT !.last[q] = NoAnswer("pending"),
                                        !.received[q] = 0], q, TRUE, <<>>)
  /\ BridgeUnchanged

\* connectWithRetry() resolves with a new client (lines 30-41, 51-53): it
\* becomes httpClient and fn is invoked with it.
BridgeConnectOK(q) ==
  /\ bridge.pc = "ready"
  /\ bridge.reqs[q].pc = "connecting"
  /\ bridge.created < MaxBridgeClients
  /\ LET c == bridge.created + 1
     IN bridge' = [bridge EXCEPT
                     !.created = c,
                     !.httpClient = c,
                     !.reqs[q] = BridgeCallAt("calling", @.inTry, Append(@.calls, c))]
  /\ BridgeUnchanged

\* connectWithRetry() gives up after MAX_CONNECT_ATTEMPTS and throws (line 46).
BridgeConnectFail(q, error) ==
  /\ bridge.pc = "ready"
  /\ bridge.reqs[q].pc = "connecting"
  /\ bridge' = Rejects(bridge, q, error)
  /\ BridgeUnchanged

\* fn(client) resolves (lines 62 and 66).
BridgeFnOK(q, result) ==
  /\ bridge.pc = "ready"
  /\ bridge.reqs[q].pc = "calling"
  /\ bridge' = [bridge EXCEPT !.reqs[q] = FreeCall,
                              !.last[q] = [status |-> "result", value |-> result,
                                           calls |-> bridge.reqs[q].calls],
                              !.received[q] = @ + 1]
  /\ BridgeUnchanged

\* fn(client) rejects (lines 63-66).
BridgeFnFail(q, error) ==
  /\ bridge.pc = "ready"
  /\ bridge.reqs[q].pc = "calling"
  /\ bridge' = [Rejects(bridge, q, error) EXCEPT
                  !.received[q] = IF ReachedProxy(error) THEN @ + 1 ELSE @]
  /\ BridgeUnchanged

\* -------------------------------------------------------------------- tray

ProcIds == 1..MaxProcs
\* let proxyProc: ChildProcess | null = null
NoProc == 0
\* ChildProcess.exitCode and .signalCode while neither is set
NullCode == 0 - 1
NoSignal == "none"

\* A ChildProcess as Node keeps it: exitCode is null while the child runs
\* and is set when it exits by itself; a child that a signal ends gets
\* signalCode set, and its exitCode stays null.
NotSpawned == [state |-> "none", exitCode |-> NullCode, signalCode |-> NoSignal]
Running == [state |-> "running", exitCode |-> NullCode, signalCode |-> NoSignal]
ExitedWith(code) == [state |-> "exited", exitCode |-> code, signalCode |-> NoSignal]
KilledBy(signal) == [state |-> "exited", exitCode |-> NullCode, signalCode |-> signal]

\* The tray when its top-level statements have run (lines 164, 238-241):
\* the first proxy is spawned and the poll timer armed.
TrayReady ==
  [pc |-> "up", proxyProc |-> 1, spawned |-> 1,
   procs |-> [p \in ProcIds |-> IF p = 1 THEN Running ELSE NotSpawned],
   timers |-> 0, pollTimer |-> TRUE, fetches |-> 0, icon |-> "yellow"]

\* startProxy(): proxyProc = spawn("node", [SCRIPT], ...)
StartProxy(t) ==
  [t EXCEPT !.proxyProc = t.spawned + 1, !.spawned = t.spawned + 1,
            !.procs[t.spawned + 1] = Running]

\* killProxy(): a child whose exitCode is null is killed; proxyProc = null.
KillProxy(t) ==
  IF t.proxyProc = NoProc THEN t
  ELSE [t EXCEPT !.proxyProc = NoProc,
                 !.procs[t.proxyProc] =
                    IF @.exitCode = NullCode /\ @.state = "running"
                    THEN KilledBy("SIGKILL") ELSE @]

\* `proxyProc && proxyProc.exitCode !== null`
CrashDetected(t) ==
  t.proxyProc # NoProc /\ t.procs[t.proxyProc].exitCode # NullCode

TrayUnchanged ==
  /\ ProxyUnchanged
  /\ UNCHANGED <<boot, sessions, bridge>>

\* The interval timer fires, or tray.ready() resolves: poll() up to its return
\* or its await of fetch(HEALTH) (lines 225-234).
TrayPoll ==
  /\ tray.pc = "up"
  /\ tray.pollTimer
  /\ IF CrashDetected(tray)
     THEN /\ tray.spawned < MaxProcs
          /\ tray' = [StartProxy(tray) EXCEPT !.icon = "yellow"]
     ELSE /\ tray.fetches = 0
          /\ tray' = [tray EXCEPT !.fetches = 1]
  /\ TrayUnchanged

\* fetch(HEALTH) and res.json() settle (lines 233-246): "failed" when either
\* rejects, else the status the proxy answered.
TrayHealth(answer) ==
  /\ tray.pc = "up"
  /\ tray.fetches > 0
  /\ tray' = [tray EXCEPT !.fetches = @ - 1,
                          !.icon = IF answer = "ok" THEN "green"
                                   ELSE IF answer = "failed" THEN "red"
                                   ELSE "yellow"]
  /\ TrayUnchanged

\* A proxy process ends by itself: it exits with a code (process.exit, an
\* uncaught exception) or is ended by a signal (SIGSEGV, SIGKILL, ...).
ProxyExits(p, how) ==
  /\ tray.pc = "up"
  /\ tray.procs[p].state = "running"
  /\ tray' = [tray EXCEPT !.procs[p] = how]
  /\ TrayUnchanged

\* Menu item "Restart Proxy" (lines 194-198).
ClickRestart ==
  /\ tray.pc = "up"
  /\ tray.timers < MaxTimers
  /\ tray' = [KillProxy(tray) EXCEPT !.icon = "yellow", !.timers = @ + 1]
  /\ TrayUnchanged

\* A setTimeout(startProxy, 1500) timer fires.
RestartTimer ==
  /\ tray.pc = "up"
  /\ tray.timers > 0
  /\ tray.spawned < MaxProcs
  /\ tray' = [StartProxy(tray) EXCEPT !.timers = @ - 1]
  /\ TrayUnchanged

\* Menu item "Exit" (lines 200-204).
ClickExit ==
  /\ tray.pc = "up"
  /\ tray' = [KillProxy(tray) EXCEPT !.pc = "exited", !.pollTimer = FALSE,
                                     !.timers = 0, !.fetches = 0]
  /\ TrayUnchanged

\* ----------------------------------------------------------- HTTP sessions

SessionIds == 1..MaxSessions
\* The turn of the next answer.
Turn(ss) == 1 - ss.last.turn

\* A session table is a Map: a function from the session ids it holds.
\* Map.get(sid), NoSession standing for undefined.
MapGet(table, sid) == IF sid \in DOMAIN table THEN table[sid] ELSE NoSession
\* Map.set(sid, transport)
MapSet(table, sid, transport) ==
  [x \in DOMAIN table \cup {sid} |-> IF x = sid THEN transport ELSE table[x]]

\* Mutant of MapDelete: the entry stays.
MapDeleteNothing(table, sid) == table

\* Map.delete(sid)
MapDelete(table, sid) == [x \in DOMAIN table \ {sid} |-> table[x]]

\* The transport a request creates: randomUUID() and the SSE transport's own
\* id are new each time; the next unused slot stands for them.
NewTransport(ss) ==
  CHOOSE t \in SessionIds :
    ss.trs[t].state = "none" /\ \A u \in SessionIds : ss.trs[u].state = "none" => t <= u
CanCreate(ss) == \E t \in SessionIds : ss.trs[t].state = "none"

\* Mutant of StartsSession: every method may start a session.
StartsSessionAlways(method) == TRUE

\* The negation of `req.method !== "POST"` (line 777).
StartsSession(method) == method = "POST"

SessionsUnchanged ==
  /\ ProxyUnchanged
  /\ UNCHANGED <<boot, bridge, tray>>

\* StreamableHTTPServerTransport.handleRequest for a request that carries the
\* transport's session id: DELETE ends the session (onsessionclosed, then
\* close()), a second initialize is refused, anything else is served.
HandleKnown(ss, t, req) ==
  IF req.method = "DELETE"
  THEN [ss EXCEPT !.streamable = MapDelete(@, t),
                  !.trs[t].state = "closed",
                  !.last = Answer(Turn(ss), req, 200, t, NoSession)]
  ELSE IF req.method = "POST" /\ req.body = "initialize"
  THEN [ss EXCEPT !.last = Answer(Turn(ss), req, 400, t, NoSession)]
  ELSE [ss EXCEPT !.last = Answer(Turn(ss), req, 200, t, NoSession)]

\* A new StreamableHTTPServerTransport handles its first request: an
\* initialize request gives it a session id and calls onsessioninitialized,
\* any other is refused by it as "not initialized" and leaves it without one.
HandleFirst(ss, t, req) ==
  IF req.body = "initialize"
  THEN [ss EXCEPT !.trs[t] = [kind |-> "streamable", state |-> "open"],
                  !.streamable = MapSet(@, t, t),
                  !.last = Answer(Turn(ss), req, 200, t, t)]
  ELSE [ss EXCEPT !.trs[t] = [kind |-> "streamable", state |-> "new"],
                  !.last = Answer(Turn(ss), req, 400, t, NoSession)]

\* app.all("/mcp") (lines 769-786): `sid` is the mcp-session-id header,
\* NoSession when the request has none.
McpRequest(method, sid, body) ==
  LET req == Request("/mcp", method, sid, body)
  IN /\ boot.listening
     /\ IF sid # NoSession
        THEN LET t == MapGet(sessions.streamable, sid)
             IN sessions' = IF t = NoSession
                            THEN [sessions EXCEPT
                                    !.last = Answer(Turn(sessions), req, 404, NoSession, NoSession)]
                            ELSE HandleKnown(sessions, t, req)
        ELSE IF ~StartsSession(method)
        THEN sessions' = [sessions EXCEPT
                            !.last = Answer(Turn(sessions), req, 400, NoSession, NoSession)]
        ELSE /\ CanCreate(sessions)
             /\ sessions' = HandleFirst(sessions, NewTransport(sessions), req)
     /\ SessionsUnchanged

\* app.get("/sse") (lines 790-796).
SseConnect ==
  /\ boot.listening
  /\ CanCreate(sessions)
  /\ LET t == NewTransport(sessions)
         req == Request("/sse", "GET", NoSession, "none")
     IN sessions' = [sessions EXCEPT !.trs[t] = [kind |-> "sse", state |-> "open"],
                                     !.sse = MapSet(@, t, t),
                                     !.last = Answer(Turn(sessions), req, 200, t, t)]
  /\ SessionsUnchanged

\* app.post("/messages") (lines 798-803): `sid` is the sessionId query
\* parameter, NoSession when the request has none.
MessagesPost(sid) ==
  /\ boot.listening
  /\ LET t == MapGet(sessions.sse, sid)
         req == Request("/messages", "POST", sid, "other")
     IN sessions' = IF t = NoSession
                    THEN [sessions EXCEPT
                            !.last = Answer(Turn(sessions), req, 404, NoSession, NoSession)]
                    ELSE [sessions EXCEPT !.last = Answer(Turn(sessions), req, 202, t, NoSession)]
  /\ SessionsUnchanged

\* The SSE stream of transport t ends (the client goes away, or the
\* transport is closed): transport.onclose (line 795) runs.
SseClosed(t) ==
  /\ sessions.trs[t] = [kind |-> "sse", state |-> "open"]
  /\ sessions' = [sessions EXCEPT !.trs[t].state = "closed",
                                  !.sse = MapDelete(@, t)]
  /\ SessionsUnchanged

\* ----------------------------------------------------------------- health

\* status: routerConnected ? "ok" : "disconnected"
HealthStatus(connected, index) == IF connected THEN "ok" ELSE "disconnected"

\* The body GET /health answers with (lines 805-813); the session counts are
\* left to the session tables.
Health ==
  [status |-> HealthStatus(routerConnected, toolIndex),
   routerConnected |-> routerConnected,
   tools |-> Len(toolIndex.tools),
   indexedAt |-> toolIndex.indexedAt]

\* ------------------------------------------------------------------ specs

ToolA == [name |-> <<97>>, description |-> <<120>>, inputSchema |-> SchemaPlain]
ToolB == [name |-> <<98>>, description |-> Null, inputSchema |-> SchemaPlain]
ToolC == [name |-> <<99>>, description |-> Null, inputSchema |-> SchemaPlain]

\* Spec: the connection supervisor with every trigger of a rebuild, over an
\* upstream that serves no tool or the one tool "a", and an embedding provider
\* that returns one vector.
SupervisorCatalogs == {<<>>, <<ToolA>>}
SupervisorVectors == {<<1, 0>>}

Init == \E c \in SupervisorCatalogs : Start(c, NoFile)

Next ==
  \/ \E l \in LoopIds : StartAttempt(l)
  \/ \E l \in LoopIds : ConnectOK(l)
  \/ \E l \in LoopIds, closing \in BOOLEAN : ConnectFail(l, closing)
  \/ \E t \in TransportIds : Close(t)
  \/ \E k \in TaskIds : ListOK(k, TRUE)
  \/ \E k \in TaskIds : ListFail(k)
  \/ \E k \in TaskIds, v \in SupervisorVectors : EmbedOK(k, v, TRUE)
  \/ \E k \in TaskIds : EmbedFail(k)
  \/ \E t \in TransportIds : Notify(t)
  \/ Refresh
  \/ PollTick
  \/ \E k \in TaskIds : PollFetchOK(k)
  \/ \E k \in TaskIds : PollFetchFail(k)
  \/ \E c \in SupervisorCatalogs : UpstreamChange(c)

Spec == Init /\ [][Next]_vars

\* SpecIndex: the index builder, started by the connect loop, by
\* notifications and by refresh_tools, on an upstream connection that stays
\* open once made.  Tool "a" takes every description and schema, tool "b" is fixed;
\* the catalog holds either, both (in either order) or none.
IndexTools ==
  [name : {<<97>>}, description : Descriptions, inputSchema : Schemas] \cup {ToolB}
IndexCatalogs == CatalogsOver(IndexTools, 2)

InitIndex == \E c \in IndexCatalogs, f \in {NoFile, <<SeedFile>>} : Start(c, f)

NextIndex ==
  \/ StartAttempt(MainLoop)
  \/ ConnectOK(MainLoop)
  \/ \E k \in TaskIds : ListOK(k, TRUE)
  \/ \E k \in TaskIds : ListFail(k) /\ tasks[k].owner = NoLoop
  \/ \E k \in TaskIds, v \in Vectors : EmbedOK(k, v, TRUE)
  \/ \E k \in TaskIds : EmbedFail(k) /\ tasks[k].owner = NoLoop
  \/ \E t \in TransportIds : Notify(t)
  \/ Refresh
  \/ \E c \in IndexCatalogs : UpstreamChange(c)

SpecIndex == InitIndex /\ [][NextIndex]_vars

\* SpecDiscover: discover_tools requests interleaved with rebuilds of up to
\* two embeddings, on a connection that stays open once made.
DiscoverCatalogs == {<<>>, <<ToolA>>, <<ToolA, ToolB>>, <<ToolB>>}

InitDiscover == \E c \in DiscoverCatalogs : Start(c, NoFile)

NextDiscover ==
  \/ StartAttempt(MainLoop)
  \/ ConnectOK(MainLoop)
  \/ \E k \in TaskIds : ListOK(k, TRUE)
  \/ \E k \in TaskIds, v \in Vectors : EmbedOK(k, v, TRUE)
  \/ \E k \in TaskIds : EmbedFail(k) /\ tasks[k].owner = NoLoop
  \/ Refresh
  \/ \E c \in DiscoverCatalogs : UpstreamChange(c)
  \/ DiscoverCall
  \/ \E q \in SupervisorVectors : DiscoverDone(q, <<>>)

SpecDiscover == InitDiscover /\ [][NextDiscover]_vars

\* SpecFingerprint: fingerprint() applied by rebuilds and polls to every
\* catalog of up to three tools, each with or without a description.
FingerprintTools == [name : Names, description : Descriptions, inputSchema : {SchemaPlain}]
FingerprintCatalogs == CatalogsOver(FingerprintTools, 3)

InitFingerprint == \E c \in FingerprintCatalogs : Start(c, NoFile)

NextFingerprint ==
  \/ StartAttempt(MainLoop)
  \/ ConnectOK(MainLoop)
  \/ \E k \in TaskIds : ListOK(k, TRUE)
  \/ \E k \in TaskIds, v \in SupervisorVectors : EmbedOK(k, v, TRUE)
  \/ \E c \in FingerprintCatalogs : UpstreamChange(c)

SpecFingerprint == InitFingerprint /\ [][NextFingerprint]_vars

\* SpecRank: discover_tools over snapshots of one to three tools whose
\* embeddings are drawn from vectors of every kind (ten times the vectors
\* [1,0], [0,1], [0.9,0.1], the zero vector and one with a negative
\* component), for queries and limits of every kind.
RankCatalogs == {<<ToolA>>, <<ToolA, ToolB>>, <<ToolA, ToolB, ToolC>>}
RankVectors == {<<10, 0>>, <<0, 10>>, <<9, 1>>, <<0, 0>>, <<0 - 10, 0>>}
RankQueries == {<<10, 0>>, <<0, 10>>, <<0, 0>>}
Limits == {<<>>, <<0 - 1>>, <<0>>, <<1>>, <<2>>}

InitRank == \E c \in RankCatalogs : Start(c, NoFile)

NextRank ==
  \/ StartAttempt(MainLoop)
  \/ ConnectOK(MainLoop)
  \/ \E k \in TaskIds : ListOK(k, TRUE)
  \/ \E k \in TaskIds, v \in RankVectors : EmbedOK(k, v, TRUE)
  \/ DiscoverCall
  \/ \E q \in RankQueries, l \in Limits : DiscoverDone(q, l)

SpecRank == InitRank /\ [][NextRank]_vars

\* SpecPersist: rebuilds whose write of the snapshot file succeeds, fails or
\* is cut short by a kill of the process, which then starts again from the
\* files it left.
PersistCatalogs == {<<>>, <<ToolA>>, <<ToolA, ToolB>>, <<ToolB>>}

InitPersist == \E c \in PersistCatalogs : Start(c, NoFile)

NextPersist ==
  \/ StartAttempt(MainLoop)
  \/ ConnectOK(MainLoop)
  \/ \E k \in TaskIds, w \in BOOLEAN : ListOK(k, w)
  \/ \E k \in TaskIds, v \in SupervisorVectors, w \in BOOLEAN : EmbedOK(k, v, w)
  \/ Refresh
  \/ \E c \in PersistCatalogs : UpstreamChange(c)
  \/ Kill
  \/ \E k \in TaskIds, v \in SupervisorVectors, stage \in {"torn", "written"} :
       KillInPersist(k, v, stage)

SpecPersist == InitPersist /\ [][NextPersist]_vars

\* SpecRouter: execute_tool and batch_execute requests of every kind, against
\* an upstream that accepts every connection, answers or fails each call in
\* any order, and closes an established connection at any time.  The catalog is empty, so that rebuilds
\* end with the listing.
RouterNames == {Str(<<97>>), Str(<<32, 98>>), Str(<<32>>), Str(<<>>), Num(7), Undefined}
RouterArguments == {Undefined, Obj(<<107>>)}
RouterCalls ==
  {[tool_name |-> Str(<<97>>), arguments |-> Obj(<<107>>)],
   [tool_name |-> Str(<<32, 98>>), arguments |-> NullValue],
   [tool_name |-> Str(<<32>>), arguments |-> Undefined],
   [tool_name |-> Undefined, arguments |-> Undefined]}
RECURSIVE CallLists(_)
CallLists(n) ==
  IF n = 0 THEN {<<>>}
  ELSE CallLists(n - 1) \cup
       {Append(l, c) : l \in {x \in CallLists(n - 1) : Len(x) = n - 1}, c \in RouterCalls}
\* args.calls: an array of up to MaxBatch entries, or no array at all.
RouterBatches ==
  {[isArray |-> TRUE, items |-> l] : l \in CallLists(MaxBatch)}
    \cup {[isArray |-> FALSE, items |-> <<>>]}

InitRouter == Start(<<>>, NoFile)

NextRouter ==
  \/ \E l \in LoopIds : StartAttempt(l)
  \/ \E l \in LoopIds : ConnectOK(l)
  \/ \E t \in TransportIds : routerConnected /\ routerClient = t /\ Close(t)
  \/ \E k \in TaskIds : ListOK(k, TRUE)
  \/ \E r \in RequestIds, n \in RouterNames, a \in RouterArguments : ExecuteCall(r, n, a)
  \/ \E r \in RequestIds, c \in RouterBatches : BatchCall(r, c)
  \/ \E r \in RequestIds, i \in 1..MaxBatch, v \in UpstreamResults : CallOK(r, i, v)
  \/ \E r \in RequestIds, i \in 1..MaxBatch, e \in UpstreamErrors : CallFail(r, i, e)

SpecRouter == InitRouter /\ [][NextRouter]_vars

\* SpecDrop: rebuild requests that arrive while a rebuild is in flight, on a
\* connection that stays open.  Once a request has been dropped the upstream
\* catalog stays as it is until the rebuild in flight has ended, so that the
\* catalog at the arrival of the dropped request is the one `upstream` holds.
DropCatalogs == {<<ToolA>>, <<ToolB>>, <<ToolA, ToolB>>, <<ToolB, ToolC>>}

InitDrop == \E c \in DropCatalogs : Start(c, NoFile)

NextDrop ==
  \/ StartAttempt(MainLoop)
  \/ ConnectOK(MainLoop)
  \/ \E k \in TaskIds : ListOK(k, TRUE)
  \/ \E k \in TaskIds, v \in SupervisorVectors : EmbedOK(k, v, TRUE)
  \/ \E t \in TransportIds : Notify(t)
  \/ Refresh
  \/ \E c \in DropCatalogs : lastReturn.outcome # "dropped" /\ UpstreamChange(c)

SpecDrop == InitDrop /\ [][NextDrop]_vars

\* SpecPoll: the polling fallback on a connection that stays open once made,
\* with listings and embeddings that succeed.  Notifications and refreshes
\* come or not, and may be dropped; the timer keeps firing, and every call
\* that is awaited resolves in the end.
PollCatalogs == {<<>>, <<ToolA>>, <<ToolB>>, <<ToolB, ToolA>>}

InitPoll == \E c \in PollCatalogs : Start(c, NoFile)

NextPoll ==
  \/ StartAttempt(MainLoop)
  \/ ConnectOK(MainLoop)
  \/ \E k \in TaskIds : ListOK(k, TRUE)
  \/ \E k \in TaskIds, v \in SupervisorVectors : EmbedOK(k, v, TRUE)
  \/ \E t \in TransportIds : Notify(t)
  \/ Refresh
  \/ PollTick
  \/ \E k \in TaskIds : PollFetchOK(k)
  \/ \E c \in PollCatalogs : UpstreamChange(c)

FairPoll ==
  /\ WF_vars(StartAttempt(MainLoop))
  /\ WF_vars(ConnectOK(MainLoop))
  /\ \A k \in TaskIds : WF_vars(ListOK(k, TRUE))
  /\ \A k \in TaskIds : WF_vars(\E v \in SupervisorVectors : EmbedOK(k, v, TRUE))
  /\ WF_vars(PollTick)
  /\ \A k \in TaskIds : WF_vars(PollFetchOK(k))

SpecPoll == InitPoll /\ [][NextPoll]_vars /\ FairPoll

\* SpecBoot: the proxy from its first statement, for every value of
\* MCPR_TOKEN, in HTTP and in stdio mode, followed by the connection
\* supervisor against an upstream with an empty catalog.
Tokens == {[type |-> "undefined"], [type |-> "string", value |-> <<>>],
           [type |-> "string", value |-> <<116>>]}

InitBoot ==
  /\ ProxyStart(<<>>, NoFile, "idle")
  /\ \E token \in Tokens, http \in BOOLEAN :
       boot = Proxy("toplevel", token, http, FALSE, FALSE, NoExit)
  /\ sessions = NoSessions
  /\ bridge = NoBridge
  /\ tray = NoTray

NextBoot ==
  \/ CheckToken
  \/ ModelLoaded
  \/ ModelFails
  \/ \E l \in LoopIds : StartAttempt(l)
  \/ \E l \in LoopIds : ConnectOK(l)
  \/ \E l \in LoopIds, closing \in BOOLEAN : ConnectFail(l, closing)
  \/ \E t \in TransportIds : Close(t)
  \/ \E k \in TaskIds : ListOK(k, TRUE)

SpecBoot == InitBoot /\ [][NextBoot]_vars

\* SpecBridge: the stdio bridge forwarding requests while the proxy behind it
\* answers, fails, goes away and comes back.
InitBridge ==
  /\ ProxyStart(<<>>, NoFile, "start")
  /\ boot = Booted
  /\ sessions = NoSessions
  /\ bridge = BridgeReady
  /\ tray = NoTray

NextBridge ==
  \/ \E q \in BridgeIds : BridgeCall(q)
  \/ \E q \in BridgeIds : BridgeConnectOK(q)
  \/ \E q \in BridgeIds, e \in BridgeErrors : BridgeConnectFail(q, e)
  \/ \E q \in BridgeIds, r \in BridgeResults : BridgeFnOK(q, r)
  \/ \E q \in BridgeIds, e \in BridgeErrors : BridgeFnFail(q, e)

SpecBridge == InitBridge /\ [][NextBridge]_vars

\* SpecTray: the tray and the proxy processes it spawns, which run, exit with
\* a code or are ended by a signal, while the user clicks Restart and Exit.
ExitKinds == {ExitedWith(1), ExitedWith(0), KilledBy("SIGSEGV")}
HealthAnswers == {"ok", "disconnected", "failed"}

InitTray ==
  /\ ProxyStart(<<>>, NoFile, "start")
  /\ boot = Booted
  /\ sessions = NoSessions
  /\ bridge = NoBridge
  /\ tray = TrayReady

NextTray ==
  \/ TrayPoll
  \/ \E a \in HealthAnswers : TrayHealth(a)
  \/ \E p \in ProcIds, how \in ExitKinds : ProxyExits(p, how)
  \/ ClickRestart
  \/ RestartTimer
  \/ ClickExit

SpecTray == InitTray /\ [][NextTray]_vars

\* SpecHttp: the HTTP listener under requests of every method, with a known
\* session id, an unknown one or none, SSE streams that end, and the proxy
\* killed and started again.
Methods == {"POST", "GET", "DELETE"}
Bodies == {"initialize", "other"}
SessionHeaders == {NoSession} \cup SessionIds

InitHttp == Start(<<>>, NoFile)

NextHttp ==
  \/ \E m \in Methods, sid \in SessionHeaders, b \in Bodies : McpRequest(m, sid, b)
  \/ SseConnect
  \/ \E sid \in SessionHeaders : MessagesPost(sid)
  \/ \E t \in SessionIds : SseClosed(t)
  \/ StartAttempt(MainLoop)
  \/ Kill

SpecHttp == InitHttp /\ [][NextHttp]_vars

\* SpecGuard: rebuilds started by the connect loops, by notifications and by
\* refresh_tools, each ending in one of its five ways: a published snapshot,
\* an unchanged fingerprint, a listTools() that rejects (an upstream error or
\* a closed transport), an embed() that rejects, a cache write that throws.
InitGuard == \E c \in SupervisorCatalogs : Start(c, NoFile)

NextGuard ==
  \/ \E l \in LoopIds : StartAttempt(l)
  \/ \E l \in LoopIds : ConnectOK(l)
  \/ \E t \in TransportIds : routerConnected /\ routerClient = t /\ Close(t)
  \/ \E k \in TaskIds, w \in BOOLEAN : ListOK(k, w)
  \/ \E k \in TaskIds : ListFail(k)
  \/ \E k \in TaskIds, v \in SupervisorVectors, w \in BOOLEAN : EmbedOK(k, v, w)
  \/ \E k \in TaskIds : EmbedFail(k)
  \/ \E t \in TransportIds : Notify(t)
  \/ Refresh
  \/ \E c \in SupervisorCatalogs : UpstreamChange(c)

SpecGuard == InitGuard /\ [][NextGuard]_vars

\* ----------------------------------------------------------------- claims

ActiveReconnectLoops == {r \in ReconnectIds : loops[r].pc # "idle"}
InFlight == {k \in TaskIds : tasks[k].pc \in {"listing", "embedding"}}

\* C1: whatever the order of upstream close events, at most one reconnect
\* loop started by a close event is scheduled or running at any time.
C1_OneReconnectLoop == Cardinality(ActiveReconnectLoops) <= 1

\* A close event arrived while the reconnect loop was running its index build
\* and started no second loop.
C1_Witness ==
  /\ Cardinality(ActiveReconnectLoops) = 1
  /\ \E r \in ReconnectIds : loops[r].pc = "indexing"
  /\ ~routerConnected

\* C2: the supervisor never gives up: there is no state in which the upstream
\* is disconnected and no connect loop is running or scheduled.
C2_NeverGivesUp ==
  routerConnected \/ \E l \in LoopIds : loops[l].pc # "idle"

\* The delay after the k-th failure in a row: 2s, 4s, 8s, 16s, then 30s.
ExpectedDelay(k) ==
  IF k <= 4 THEN <<2000, 4000, 8000, 16000>>[k] ELSE 30000

\* C3: in a connect loop the k-th failed attempt in a row is followed by a
\* sleep of min(2s * 2^(k-1), 30s), never more than 30s, and a loop that
\* sleeps after a failure goes on to the next attempt: it never ends on failure.
C3_Backoff ==
  /\ [](\A l \in LoopIds :
          loops[l].pc = "backoff" =>
            /\ loops[l].failed >= 1
            /\ loops[l].delay = ExpectedDelay(loops[l].failed)
            /\ loops[l].delay <= 30000)
  /\ [][\A l \in LoopIds :
          loops[l].pc = "backoff" => loops'[l].pc \in {"backoff", "connecting"}]_vars

\* A loop sleeps the capped 30s after its fifth failure in a row.
C3_Witness ==
  \E l \in LoopIds :
    loops[l].pc = "backoff" /\ loops[l].failed = 5 /\ loops[l].delay = 30000

\* C4: an upstream close event sets routerConnected to false, clears
\* routerClient, cancels the poll timer and leaves the snapshot (entries,
\* embeddings, fingerprint, indexedAt) as it was.
C4_DisconnectEffect ==
  [][(\E t \in TransportIds : Close(t)) =>
       /\ routerConnected' = FALSE
       /\ routerClient' = NoClient
       /\ pollTimer' = FALSE
       /\ toolIndex' = toolIndex]_vars

\* The upstream closed after a snapshot was published: the snapshot is still
\* there, the flags are cleared and a reconnect is scheduled.
C4_Witness ==
  /\ ~routerConnected /\ routerClient = NoClient /\ ~pollTimer
  /\ Len(toolIndex.tools) > 0
  /\ \E r \in ReconnectIds : loops[r].pc = "sleeping"

\* A buildIndex() call made while another one is in flight, by any trigger.
DroppedCall ==
  /\ reindexing
  /\ \/ routerClient # NoClient /\ routerConnected /\ Refresh
     \/ routerClient # NoClient /\ routerConnected /\ \E t \in TransportIds : Notify(t)
     \/ /\ routerClient # NoClient /\ routerConnected
        /\ fingerprint(upstream) # toolIndex.fingerprint
        /\ \E k \in TaskIds : PollFetchOK(k)
     \/ \E l \in LoopIds : ConnectOK(l)

\* C5: at most one rebuild is in flight, whatever the order of the startup,
\* notification, poll and manual triggers; a call made while one is in flight
\* returns added=0, removed=0, unchanged=0, and starts no fetch and no
\* embedding and leaves the snapshot and the rebuild in flight as they were.
C5_SingleRebuild ==
  /\ [](Cardinality(InFlight) <= 1)
  /\ [][DroppedCall =>
          /\ lastReturn' = Ret("dropped", 0, 0, 0, 0)
          /\ toolIndex' = toolIndex
          /\ cacheFile' = cacheFile
          /\ \A k \in TaskIds :
               tasks'[k].pc \in {"listing", "embedding"} => tasks'[k] = tasks[k]]_vars

\* A call was dropped and the rebuild it met is still in flight.
C5_Witness ==
  /\ lastReturn.outcome = "dropped"
  /\ Cardinality(InFlight) = 1
  /\ reindexing

\* The snapshot lists exactly the catalog `live`, in its order.
SameCatalog(index, live) ==
  /\ Len(index.tools) = Len(live)
  /\ \A i \in 1..Len(live) :
       /\ index.tools[i].name = live[i].name
       /\ index.tools[i].description = DescOf(live[i])
       /\ index.tools[i].inputSchema = live[i].inputSchema

\* The catalog a rebuild works on: the one it listed, or lists in this step.
LiveOf(k) == IF tasks[k].pc = "listing" THEN upstream ELSE tasks[k].live

\* Rebuild k ends in this step by publishing a snapshot.
Publishes(k) ==
  /\ tasks[k].pc \in {"listing", "embedding"}
  /\ tasks'[k].pc = "free"
  /\ toolIndex' # toolIndex

\* C6: a rebuild that lists the very catalog (N >= 1 entries) the snapshot
\* was built from computes no embedding, returns added=0, removed=0,
\* unchanged=N and leaves the snapshot and the persisted file untouched.
C6_Idempotent ==
  [][\A k \in TaskIds :
       (/\ ListOK(k, TRUE)
        /\ SameCatalog(toolIndex, upstream)
        /\ Len(upstream) >= 1)
       => /\ lastReturn' = Ret("nochange", 0, 0, Len(upstream), 0)
          /\ tasks'[k].pc = "free"
          /\ toolIndex' = toolIndex
          /\ cacheFile' = cacheFile]_vars

\* A rebuild of an unchanged two-entry catalog has returned unchanged=2.
C6_Witness ==
  /\ lastReturn = Ret("nochange", 0, 0, 2, 0)
  /\ SameCatalog(toolIndex, upstream)
  /\ routerConnected

\* The entries of `live` whose description differs from the snapshot's entry
\* of the same name.
DescChanged(index, live) ==
  {i \in 1..Len(live) :
     \E j \in 1..Len(index.tools) :
       /\ index.tools[j].name = live[i].name
       /\ index.tools[j].description # DescOf(live[i])}

\* `live` has the names of the snapshot, and exactly one description differs.
OneDescChanged(index, live) ==
  /\ Len(index.tools) = Len(live)
  /\ \A i \in 1..Len(live) : \E j \in 1..Len(index.tools) :
       index.tools[j].name = live[i].name
  /\ Cardinality(DescChanged(index, live)) = 1

\* C7: a rebuild of a catalog in which exactly one entry's description
\* changed since the last snapshot calls the embedding provider exactly once,
\* and every other entry of the new snapshot has the embedding it had before.
C7_Incremental ==
  [][\A k \in TaskIds :
       (Publishes(k) /\ OneDescChanged(toolIndex, LiveOf(k)))
       => /\ lastReturn'.embeds = 1
          /\ lastReturn'.added = 1
          /\ \A i \in 1..Len(LiveOf(k)) \ DescChanged(toolIndex, LiveOf(k)) :
               \E j \in 1..Len(toolIndex.tools) :
                 /\ toolIndex.tools[j].name = toolIndex'.tools[i].name
                 /\ toolIndex.tools[j].embedding = toolIndex'.tools[i].embedding]_vars

\* A rebuild of two entries, one with a changed description, waits for its
\* one embedding.
C7_Witness ==
  \E k \in TaskIds :
    /\ tasks[k].pc = "embedding"
    /\ Len(tasks[k].live) = 2
    /\ OneDescChanged(toolIndex, tasks[k].live)
    /\ tasks[k].embeds = 1

\* Every arrangement of the entries of a catalog.
Arrangements(c) ==
  {p \in CatalogsOfLen({c[i] : i \in 1..Len(c)}, Len(c)) :
     \A i \in 1..Len(c) : \E j \in 1..Len(c) : p[j] = c[i]}

\* C8: the fingerprint of a catalog equals the fingerprint of each of its
\* permutations.
C8_OrderIndependent ==
  \A p \in Arrangements(upstream) : fingerprint(p) = fingerprint(upstream)

\* The snapshot was built from three tools in another order than the upstream
\* serves now, and the fingerprints agree.
C8_Witness ==
  /\ Len(upstream) = 3
  /\ Len(toolIndex.tools) = 3
  /\ ~SameCatalog(toolIndex, upstream)
  /\ toolIndex.fingerprint = fingerprint(upstream)

\* The entries of `live` that the snapshot holds with the same name and
\* description and another schema.
SchemaChanged(index, live) ==
  {i \in 1..Len(live) :
     \E j \in 1..Len(index.tools) :
       /\ index.tools[j].name = live[i].name
       /\ index.tools[j].description = DescOf(live[i])
       /\ index.tools[j].inputSchema # live[i].inputSchema}

\* The entries of `live` whose name and description the snapshot holds.
Known(index, live) ==
  {i \in 1..Len(live) :
     \E j \in 1..Len(index.tools) :
       /\ index.tools[j].name = live[i].name
       /\ index.tools[j].description = DescOf(live[i])}

\* C9: a schema-only change of an entry changes the fingerprint, so the
\* rebuild that lists it is not a no-op; the snapshot it publishes carries the
\* listed schema with the embedding the entry had, and the rebuild calls the
\* embedding provider only for entries whose name and description are new.
C9_SchemaOnly ==
  [][\A k \in TaskIds :
       /\ (ListOK(k, TRUE) /\ SchemaChanged(toolIndex, upstream) # {})
          => /\ fingerprint(upstream) # toolIndex.fingerprint
             /\ tasks'[k].pc = "embedding" \/ toolIndex' # toolIndex
       /\ (Publishes(k) /\ SchemaChanged(toolIndex, LiveOf(k)) # {})
          => /\ \A i \in Known(toolIndex, LiveOf(k)) :
                  /\ toolIndex'.tools[i].inputSchema = LiveOf(k)[i].inputSchema
                  /\ \E j \in 1..Len(toolIndex.tools) :
                       /\ toolIndex.tools[j].name = toolIndex'.tools[i].name
                       /\ toolIndex.tools[j].embedding = toolIndex'.tools[i].embedding
             /\ lastReturn'.embeds =
                  Len(LiveOf(k)) - Cardinality(Known(toolIndex, LiveOf(k)))]_vars

\* A one-entry snapshot was published with no embedding computed, nothing
\* removed and no description that the seed file could have supplied: its
\* entry was in the snapshot before with another schema.
C9_Witness ==
  /\ lastReturn = Ret("published", 0, 0, 1, 0)
  /\ Len(toolIndex.tools) = 1
  /\ toolIndex.tools[1].description = StrEmpty
  /\ toolIndex.tools[1].name = <<97>>

\* A snapshot is complete: its fingerprint is the fingerprint of its entries
\* and every entry has an embedding.
Complete(index) ==
  /\ index.fingerprint = fingerprint(index.tools)
  /\ \A i \in 1..Len(index.tools) : index.tools[i].embedding \in Vectors

\* C10: the snapshot readers see is complete in every state, also while a
\* rebuild waits for listTools or an embedding; it changes only in the step
\* that ends a rebuild, to a snapshot of all the catalog that rebuild listed;
\* a discover request ranks all of the one snapshot it reads when its query
\* embedding arrives.
C10_AtomicPublish ==
  /\ []Complete(toolIndex)
  /\ [][toolIndex' # toolIndex =>
          \E k \in TaskIds : Publishes(k) /\ SameCatalog(toolIndex', LiveOf(k))]_vars
  /\ [][\A q \in SupervisorVectors :
          DiscoverDone(q, <<>>) =>
            /\ Len(lastDiscover'.names) = Len(toolIndex.tools)
            /\ \A i \in 1..Len(toolIndex.tools) :
                 \E j \in 1..Len(lastDiscover'.names) :
                   lastDiscover'.names[j] = toolIndex.tools[i].name]_vars

\* A discover request waits for its query embedding while a rebuild holds one
\* of two entries and waits for the embedding of the other.
C10_Witness ==
  /\ discovers = 1
  /\ \E k \in TaskIds :
       /\ tasks[k].pc = "embedding"
       /\ Len(tasks[k].entries) = 1
       /\ Len(tasks[k].live) = 2

\* C11: whatever the point at which the process is killed or a write fails,
\* CACHE_FILE is absent or holds the whole text of one snapshot that was
\* written before: a cold start never finds a partly written file there.
C11_AtomicPersistence ==
  cacheFile = NoFile \/ (Parses(cacheFile) /\ Complete(cacheFile[1]))

\* The process was killed while it wrote the text of a second snapshot and has
\* started again: the tmp path holds part of the text, CACHE_FILE the first
\* snapshot.
C11_Witness ==
  /\ loops[MainLoop].pc = "start"
  /\ tmpFile # NoFile /\ ~Parses(tmpFile)
  /\ cacheFile # NoFile /\ Parses(cacheFile)
  /\ cacheFile[1] # tmpFile[1].torn

\* C12: a rebuild whose write of the snapshot file fails still returns its
\* counts to its caller, with the new snapshot published in memory; the write
\* error does not reach the caller.
C12_WriteFailureContained ==
  [][\A k \in TaskIds, v \in SupervisorVectors :
       ((ListOK(k, FALSE) \/ EmbedOK(k, v, FALSE)) /\ toolIndex' # toolIndex)
       => /\ lastReturn'.outcome = "published"
          /\ lastReturn'.added + lastReturn'.unchanged = Len(toolIndex'.tools)]_vars

\* C13: discover_tools answers not-ready exactly when no rebuild has ever
\* published a snapshot or the upstream is disconnected; in every other state
\* it goes on to rank.
C13_NotReadyIff ==
  [][DiscoverCall =>
       ((discovers' = discovers) <=> (toolIndex.indexedAt = 0 \/ ~routerConnected))]_vars

\* The similarity of the specification, kept exact as num / sqrt(den2): the
\* dot product over the product of the magnitudes, 0 when either is zero.
Sim(q, e) ==
  LET dot == q[1] * e[1] + q[2] * e[2]
      mq == q[1] * q[1] + q[2] * q[2]
      me == e[1] * e[1] + e[2] * e[2]
  IN IF mq = 0 \/ me = 0 THEN [num |-> 0, den2 |-> 1]
     ELSE [num |-> dot, den2 |-> mq * me]

SignedSquare(n) == IF n < 0 THEN 0 - n * n ELSE n * n
SimGreater(x, y) == SignedSquare(x.num) * y.den2 > SignedSquare(y.num) * x.den2
SimEqual(x, y) == SignedSquare(x.num) * y.den2 = SignedSquare(y.num) * x.den2

\* Entry i of `tools` ranks above entry j for query q: it is more similar, or
\* as similar and earlier in the catalog.
Above(tools, q, i, j) ==
  LET x == Sim(q, tools[i].embedding)
      y == Sim(q, tools[j].embedding)
  IN SimGreater(x, y) \/ (SimEqual(x, y) /\ i < j)

\* The response lists entries of `tools` from the most similar downward, ties
\* in catalog order, and leaves out only entries that rank below all it lists.
RankedBy(resp, tools) ==
  /\ \A j \in 1..Len(resp.names) :
       \E i \in 1..Len(tools) : tools[i].name = resp.names[j]
  /\ LET pos == [j \in 1..Len(resp.names) |->
                   CHOOSE i \in 1..Len(tools) : tools[i].name = resp.names[j]]
     IN /\ \A j1, j2 \in 1..Len(resp.names) :
             j1 < j2 => Above(tools, resp.query, pos[j1], pos[j2])
        /\ \A i \in 1..Len(tools) :
             (\A j \in 1..Len(resp.names) : pos[j] # i)
             => \A j \in 1..Len(resp.names) : Above(tools, resp.query, pos[j], i)

Smaller(a, b) == IF a < b THEN a ELSE b

C15_LimitAtLeastOne ==
  [][\A q \in RankQueries, l \in Limits :
       (DiscoverDone(q, l) /\ Len(toolIndex.tools) >= 1) =>
         /\ Len(lastDiscover'.names) >= 1
         /\ LimitOf(l) >= 1 =>
              Len(lastDiscover'.names) = Smaller(LimitOf(l), Len(toolIndex.tools))]_vars

IsZero(v) == \A i \in 1..Len(v) : v[i] = 0

\* C16: the similarity of a query embedding and an entry embedding of which
\* one has magnitude zero is exactly 0, and no similarity is NaN: every score
\* the sort compares, and every relevance returned, is a number.
C16_ZeroVectorSafe ==
  [][\A q \in RankQueries, l \in Limits :
       DiscoverDone(q, l) =>
         /\ \A i \in 1..Len(toolIndex.tools) :
              LET score == cosine(q, toolIndex.tools[i].embedding)
              IN /\ ~score.nan
                 /\ (IsZero(q) \/ IsZero(toolIndex.tools[i].embedding))
                    => score.num = 0
         /\ \A j \in 1..Len(lastDiscover'.relevance) :
              /\ lastDiscover'.relevance[j] # NaN
              /\ (IsZero(q) \/
                  \E i \in 1..Len(toolIndex.tools) :
                    /\ toolIndex.tools[i].name = lastDiscover'.names[j]
                    /\ IsZero(toolIndex.tools[i].embedding))
                 => lastDiscover'.relevance[j] = 0]_vars

\* A response lists an entry whose embedding is the zero vector, with
\* relevance 0, below an entry of relevance 1.
C16_Witness ==
  /\ lastDiscover.status = "ok"
  /\ Len(lastDiscover.names) = 2
  /\ lastDiscover.relevance = <<10000, 0>>
  /\ \E i \in 1..Len(toolIndex.tools) :
       /\ toolIndex.tools[i].name = lastDiscover.names[2]
       /\ IsZero(toolIndex.tools[i].embedding)

\* C17: every relevance discover_tools returns is in [0, 1] (0 to 10000 units
\* of 0.0001), whatever the query embedding and the entry embeddings.
C17_RelevanceRange ==
  lastDiscover.status = "ok" =>
    \A j \in 1..Len(lastDiscover.relevance) :
      lastDiscover.relevance[j] >= 0 /\ lastDiscover.relevance[j] <= 10000

\* The request execute_tool is to forward for its arguments: the operation
\* name as given, and the arguments given or none.
Forward(input) ==
  [name |-> input.tool_name,
   arguments |-> IF input.arguments.type = "object" THEN input.arguments ELSE Obj(<<>>)]

Disconnected == routerClient = NoClient \/ ~routerConnected

IsExecute(req) == req.pc = "calling" /\ req.kind = "execute"
IsBatch(req) == req.pc = "calling" /\ req.kind = "batch"

\* C18: execute_tool called while the upstream is disconnected returns the
\* not-ready error and makes no upstream call; called while it is connected,
\* for an operation name, it sends the call once, sends nothing more while it
\* waits, whatever the outcome, and returns what the upstream resolved with or
\* throws what the call was rejected with, unmodified.
C18_ExecuteForwardsOnce ==
  [][\A r \in RequestIds :
       /\ \A n \in RouterNames, a \in RouterArguments :
            ExecuteCall(r, n, a) =>
              IF Disconnected
              THEN lastCall'[r].status = "notready" /\ requests' = requests
              ELSE UsableName(n) =>
                     /\ IsExecute(requests'[r])
                     /\ requests'[r].forwarded =
                          <<Forward([tool_name |-> n, arguments |-> a])>>
       /\ IsExecute(requests[r]) =>
            /\ Len(requests[r].forwarded) = 1
            /\ IsExecute(requests'[r]) => requests'[r].forwarded = requests[r].forwarded
            /\ requests'[r].pc = "free" => lastCall'[r].forwarded = requests[r].forwarded
            /\ \A v \in UpstreamResults :
                 CallOK(r, 1, v) =>
                   lastCall'[r].status = "result" /\ lastCall'[r].value = v
            /\ \A e \in UpstreamErrors :
                 CallFail(r, 1, e) =>
                   lastCall'[r].status = "thrown" /\ lastCall'[r].value = e
            /\ Close(requests[r].via) =>
                 lastCall'[r].status = "thrown" /\ lastCall'[r].value = ClosedError
    ]_vars

\* An upstream result that reports a tool error has come back from an
\* execute_tool call made without arguments.
C18_Witness ==
  \E r \in RequestIds :
    /\ lastCall[r].status = "result"
    /\ lastCall[r].value.isError
    /\ lastCall[r].input.arguments = Undefined
    /\ lastCall[r].forwarded = <<[name |-> Str(<<32, 98>>), arguments |-> Obj(<<>>)]>>

\* An entry of `calls` without a non-empty name.
LacksName(call) == call.tool_name.type # "string" \/ call.tool_name.value = <<>>
Rejectable(calls) ==
  \/ Len(calls.items) = 0
  \/ \E i \in 1..Len(calls.items) : LacksName(calls.items[i])

\* A step of the batch_execute handler from its start: the response of
\* request r is replaced while r is not waiting, by one to a `calls` argument.
BatchCalled(r) ==
  /\ requests[r].pc = "free"
  /\ lastCall'[r] # lastCall[r]
  /\ "isArray" \in DOMAIN lastCall'[r].input

\* C19 as stated: a batch_execute whose list is empty or has an entry without
\* a non-empty name dispatches no upstream call and returns a validation error.
C19_AllOrNothingValidation ==
  [][\A r \in RequestIds :
       (BatchCalled(r) /\ Rejectable(lastCall'[r].input)) =>
         /\ requests' = requests
         /\ lastCall'[r].status = "invalid"
    ]_vars

\* C19, amended: a batch_execute whose list is empty or has an entry without a
\* non-empty name dispatches no upstream call and returns an error: the
\* validation error when the upstream is connected, the not-ready error when
\* it is disconnected.
C19_AllOrNothingWhileConnected ==
  [][\A r \in RequestIds :
       (BatchCalled(r) /\ Rejectable(lastCall'[r].input)) =>
         /\ requests' = requests
         /\ lastCall'[r].forwarded = <<>>
         /\ lastCall'[r].status = IF Disconnected THEN "notready" ELSE "invalid"
    ]_vars

\* A batch whose first entry is valid and whose second has no name has been
\* answered with the validation error.
C19_Witness ==
  \E r \in RequestIds :
    /\ lastCall[r].status = "invalid"
    /\ "isArray" \in DOMAIN lastCall[r].input
    /\ Len(lastCall[r].input.items) = 2
    /\ UsableName(lastCall[r].input.items[1].tool_name)
    /\ LacksName(lastCall[r].input.items[2])
    /\ requests[r].pc = "free"

\* C20: the response of a dispatched batch of n calls lists n results; result
\* i carries the name of input i, whatever the order the calls completed in,
\* and is marked failed exactly when upstream call i was rejected, with the
\* upstream's result or the text of its error; and a call that fails leaves
\* every sibling as it was, pending ones still pending.
C20_BatchIsolation ==
  /\ [](\A r \in RequestIds :
          lastCall[r].status = "batch" =>
            LET last == lastCall[r]
                n == Len(last.input.items)
            IN /\ Len(last.value) = n
               /\ Len(last.forwarded) = n
               /\ \A i \in 1..n :
                    /\ last.value[i].tool_name = last.input.items[i].tool_name
                    /\ last.forwarded[i].name = last.input.items[i].tool_name
                    /\ last.value[i].success = (last.items[i].state = "ok")
                    /\ last.value[i].success => last.value[i].result = last.items[i].value
                    /\ ~last.value[i].success =>
                         last.value[i].error = StringOf(last.items[i].value))
  /\ [][\A r \in RequestIds, i \in 1..MaxBatch, e \in UpstreamErrors :
          (IsBatch(requests[r]) /\ CallFail(r, i, e)) =>
            LET after == IF requests'[r].pc = "free"
                         THEN lastCall'[r].items ELSE requests'[r].items
            IN /\ after[i].state = "failed" /\ after[i].value = e
               /\ \A j \in 1..Len(requests[r].items) :
                    j # i => after[j] = requests[r].items[j]
               /\ (\E j \in 1..Len(requests[r].items) :
                      j # i /\ requests[r].items[j].state = "pending")
                    => IsBatch(requests'[r])
    ]_vars

\* A batch of two calls has been answered whose second call completed first
\* and succeeded, and whose first call failed.
C20_Witness ==
  \E r \in RequestIds :
    /\ lastCall[r].status = "batch"
    /\ lastCall[r].order = <<2, 1>>
    /\ lastCall[r].items[1].state = "failed"
    /\ lastCall[r].items[2].state = "ok"
    /\ lastCall[r].input.items[1].tool_name # lastCall[r].input.items[2].tool_name

NamesOf(tools) == {tools[i].name : i \in 1..Len(tools)}

\* C30: a rebuild that publishes a snapshot of N upstream entries returns
\* added = the number of embed() calls it made, unchanged = N - added and
\* removed = the number of names of the previous snapshot that the fetched
\* catalog lacks, and the snapshot lists the fetched tools in upstream order.
C30_Counts ==
  [][\A k \in TaskIds :
       (Publishes(k) /\ lastReturn'.outcome = "published") =>
         LET live == LiveOf(k)
             n == Len(live)
         IN /\ lastReturn'.added = lastReturn'.embeds
            /\ lastReturn'.unchanged = n - lastReturn'.added
            /\ lastReturn'.removed =
                 Cardinality(NamesOf(toolIndex.tools) \ NamesOf(live))
            /\ SameCatalog(toolIndex', live)
    ]_vars

\* A rebuild has replaced a tool by another: one embedded, one removed.
C30_Witness ==
  /\ lastReturn.outcome = "published"
  /\ lastReturn.added = 1
  /\ lastReturn.removed = 1
  /\ lastReturn.embeds = 1
  /\ lastReturn.unchanged = 0
  /\ Len(toolIndex.tools) = 1

\* C23: whenever GET /health answers status "ok", the upstream is connected
\* and the snapshot holds at least one tool.
C23_HealthOk ==
  Health.status = "ok" => (Health.routerConnected /\ Health.tools > 0)

\* C26: when a rebuild request was dropped because a rebuild was in flight,
\* the snapshot that rebuild publishes is the upstream catalog as it was when
\* the dropped request arrived (the catalog has not changed since).
C26_DroppedIsCovered ==
  [][\A k \in TaskIds :
       (Publishes(k) /\ lastReturn.outcome = "dropped") =>
         SameCatalog(toolIndex', upstream)
    ]_vars

\* C27: on a connection that stays open, with listings that succeed, either
\* the upstream catalog keeps changing for ever or from some point on the
\* published snapshot's fingerprint is that of the upstream catalog, whether
\* or not any notification arrived.
C27_PollingConverges ==
  \/ []<><<upstream' # upstream>>_upstream
  \/ <>[](toolIndex.fingerprint = fingerprint(upstream))

\* A rebuild that the poll started is listing a catalog the snapshot does not
\* have, after a rebuild request was dropped.
C27_Witness ==
  \E k \in TaskIds :
    /\ tasks[k].pc = "listing"
    /\ tasks[k].reason = "poll"
    /\ lastReturn.outcome = "dropped"
    /\ toolIndex.fingerprint # fingerprint(upstream)

\* C25: no execute_tool or batch_execute request ends with the handler
\* throwing what the upstream call was rejected with; every upstream failure
\* comes back as a tagged result.
C25_NoErrorEscapes ==
  \A r \in RequestIds : lastCall[r].status # "thrown"

\* C24: a proxy started without MCPR_TOKEN gets no further than its exit,
\* which is with a non-zero code: it never loads the embedding model, never
\* opens the listener and never starts an upstream connection.
C24_FatalWithoutToken ==
  ((boot.token.type = "undefined") \/ (boot.token = [type |-> "string", value |-> <<>>])) =>
    /\ boot.pc \in {"toplevel", "exited"}
    /\ boot.pc = "exited" => boot.exitCode > 0
    /\ ~boot.embedder
    /\ ~boot.listening
    /\ \A t \in TransportIds : transports[t] = "free"
    /\ \A l \in LoopIds : loops[l].pc = "idle"
    /\ routerClient = NoClient

\* The proxy has exited with code 1 on an empty MCPR_TOKEN.
C24_Witness ==
  /\ boot.token = [type |-> "string", value |-> <<>>]
  /\ boot.pc = "exited"
  /\ boot.exitCode = 1
  /\ boot.http

\* C28: callWithReconnect invokes the request once with the current client;
\* when that fails it clears httpClient, gets a new connection and invokes
\* the request once more with it; a second failure is the caller's, so the
\* request is invoked at most twice.
C28_RetryOnce ==
  /\ [](\A q \in BridgeIds :
          /\ bridge.reqs[q].pc # "free" => Len(bridge.reqs[q].calls) <= 2
          /\ Len(bridge.last[q].calls) <= 2)
  /\ [][\A q \in BridgeIds, e \in BridgeErrors :
          LET req == bridge.reqs[q]
              req2 == bridge'.reqs[q]
          IN /\ (BridgeCall(q) /\ bridge.httpClient # NoHttpClient) =>
                  req2.pc = "calling" /\ req2.calls = <<bridge.httpClient>>
             /\ (BridgeFnFail(q, e) /\ Len(req.calls) = 1 /\ req.inTry) =>
                  req2.pc = "connecting" /\ req2.calls = req.calls
             /\ (BridgeConnectOK(q) /\ ~req.inTry) =>
                  /\ req2.pc = "calling"
                  /\ req2.calls = Append(req.calls, bridge'.httpClient)
                  /\ bridge'.httpClient > bridge.created
             /\ (BridgeFnFail(q, e) /\ ~req.inTry) =>
                  /\ req2 = FreeCall
                  /\ bridge'.last[q] = [status |-> "thrown", value |-> e,
                                        calls |-> req.calls]
     ]_vars

\* A request has failed on the current client, then failed again on the new
\* connection, and its second error has reached the caller.
C28_Witness ==
  \E q \in BridgeIds :
    /\ bridge.last[q].status = "thrown"
    /\ bridge.last[q].value = <<102>>
    /\ bridge.last[q].calls = <<1, 2>>

\* C29: a poll of the tray that finds the managed proxy process exited, with
\* no Restart or Exit clicked since it was spawned, starts a new proxy
\* process, which is then the managed one and running.
C29_CrashRecovery ==
  [][(/\ TrayPoll
      /\ tray.proxyProc # NoProc
      /\ tray.procs[tray.proxyProc].state = "exited")
     => /\ tray'.proxyProc # tray.proxyProc
        /\ tray'.proxyProc # NoProc
        /\ tray'.procs[tray'.proxyProc].state = "running"
    ]_vars

\* The session tables and the transports, apart from the last answer.
SessionState(ss) == <<ss.streamable, ss.sse, ss.trs>>
RouterState ==
  <<routerClient, routerConnected, toolIndex, reindexing, reconnecting, pollTimer,
    cacheFile, tmpFile, transports, loops, tasks, requests, discovers, upstream>>
\* The sessions of both tables, and the table a request looks its id up in.
Sessions(ss) == DOMAIN ss.streamable \cup DOMAIN ss.sse
TableOf(ss, req) == IF req.path = "/mcp" THEN ss.streamable ELSE ss.sse
KindOf(req) == IF req.path = "/mcp" THEN "streamable" ELSE "sse"
\* This step answers a request.
Answered == sessions'.last.turn # sessions.last.turn /\ sessions'.last.req # NoRequest
\* The answered request may start a session: an initialize POST to /mcp, a
\* GET /sse.
Opening(req) ==
  \/ req.path = "/sse"
  \/ req.path = "/mcp" /\ req.method = "POST" /\ req.body = "initialize"

\* C21 as stated: every request that carries no session id creates a new
\* session.
C21_NoIdCreatesSession ==
  [][Answered /\ sessions'.last.req.sid = NoSession =>
       sessions'.last.created \in Sessions(sessions') \ Sessions(sessions)]_vars

\* C21, amended: a request with the id of a session of the table it names is
\* handled by that session's transport; a request with an id the table does
\* not hold is answered 404 and changes neither the sessions nor the router
\* state; without an id, an initialize POST to /mcp and a GET /sse create a
\* new session, and every other request is refused and creates none.
C21_SessionRouting ==
  [][Answered =>
       LET req == sessions'.last.req
       IN IF req.sid \in DOMAIN TableOf(sessions, req)
          THEN /\ sessions'.last.via = req.sid
               /\ sessions.trs[req.sid] = [kind |-> KindOf(req), state |-> "open"]
          ELSE IF req.sid # NoSession
          THEN /\ sessions'.last.code = 404
               /\ SessionState(sessions') = SessionState(sessions)
               /\ UNCHANGED RouterState
          ELSE IF Opening(req)
          THEN sessions'.last.created \in Sessions(sessions') \ Sessions(sessions)
          ELSE /\ sessions'.last.code \in {400, 404}
               /\ Sessions(sessions') = Sessions(sessions)
               /\ sessions'.last.created = NoSession]_vars
\* A request was handled by one of two streamable sessions, after a request
\* named a session that does not exist any more.
C21_Witness ==
  /\ Cardinality(DOMAIN sessions.streamable) = 2
  /\ sessions.last.via \in DOMAIN sessions.streamable
  /\ sessions.last.created = NoSession
  /\ \E t \in SessionIds : sessions.trs[t].state = "closed"

\* C22: a closed downstream transport of either kind is in no session table
\* from the step that closes it on, and a request that names its session id
\* is answered 404.
C22_ClosedIsRemoved ==
  [][/\ \A t \in SessionIds :
          sessions'.trs[t].state = "closed" => t \notin Sessions(sessions')
     /\ Answered /\ sessions'.last.req.sid # NoSession
          /\ sessions.trs[sessions'.last.req.sid].state = "closed"
          => sessions'.last.code = 404]_vars
\* An SSE and a streamable transport are both closed, the last request named
\* one of them and was answered 404, and a third session is still open.
C22_Witness ==
  /\ \E t \in SessionIds : sessions.trs[t] = [kind |-> "sse", state |-> "closed"]
  /\ \E t \in SessionIds : sessions.trs[t] = [kind |-> "streamable", state |-> "closed"]
  /\ sessions.last.code = 404
  /\ sessions.last.req.sid # NoSession
  /\ sessions.trs[sessions.last.req.sid].state = "closed"
  /\ Sessions(sessions) # {}

\* C31: the in-flight guard is set exactly while a rebuild is executing, and
\* the step in which a rebuild ends, in whichever way, leaves the guard clear
\* unless that same step starts the next rebuild.
C31_GuardReleased ==
  /\ [](reindexing <=> InFlight # {})
  /\ [][(\E k \in TaskIds : k \in InFlight /\ tasks'[k].pc = "free") =>
          ~reindexing']_vars
\* A rebuild is in flight after an earlier one threw.
C31_Witness ==
  /\ lastReturn.outcome = "threw"
  /\ reindexing
  /\ Cardinality(InFlight) = 1

\* The connect loops that are scheduled or running, and the upstream
\* transports that are connected.
ActiveLoops == {l \in LoopIds : loops[l].pc # "idle"}
OpenTransports == {t \in TransportIds : transports[t] = "open"}

\* C32: at any time at most one connect loop, the startup loop or a reconnect
\* loop, is active, and at most one upstream transport is open.
C32_OneSession ==
  /\ Cardinality(ActiveLoops) <= 1
  /\ Cardinality(OpenTransports) <= 1

\* Transport t, connected by an earlier attempt, goes away in this step while
\* another transport, the one most recently connected, is the current session
\* and open.
Superseded(t) ==
  /\ transports[t] = "open" /\ transports'[t] = "free"
  /\ routerConnected /\ routerClient \in TransportIds \ {t}
  /\ transports[routerClient] = "open"

\* C33: the close of a superseded transport leaves the current session as it
\* is: routerConnected stays true, the client reference and the poll timer
\* stay in place.
C33_StaleCloseIgnored ==
  [][\A t \in TransportIds :
       Superseded(t) =>
         /\ routerConnected'
         /\ routerClient' = routerClient
         /\ pollTimer' = pollTimer]_vars

\* C34: the poll timer is armed only while the upstream is connected: in no
\* state is routerConnected false and the timer active.
C34_TimerOnlyWhileConnected == ~routerConnected => ~pollTimer

\* The proxy processes the tray has spawned that are running.
LiveProxies == {p \in ProcIds : tray.procs[p].state = "running"}

\* C35: the tray has at most one live proxy child process at any time, and
\* every live proxy process it started is the one it tracks in proxyProc.
C35_OneLiveProxy ==
  tray.pc = "up" =>
    /\ Cardinality(LiveProxies) <= 1
    /\ \A p \in LiveProxies : tray.proxyProc = p

\* C36: a request forwarded through the bridge is received by the proxy at
\* most once.
C36_AtMostOnce == \A q \in BridgeIds : bridge.received[q] <= 1

====
